---- MODULE Spec2Model ----
(***************************************************************************)
(* DSOWeatherClassifier (src/Arkansas/dso-classifier.js): the threshold    *)
(* gate, the match score, the temperature regime and classify.             *)
(*                                                                         *)
(* Numbers.  catalyst, gradient, fuel, solarAngle are held in hundredths   *)
(* (50 is 0.50); danger, match scores and the confidence in millionths     *)
(* (50000 is 0.05); inversionRatio and the formatted toFixed(3) scores in  *)
(* thousandths.  The JavaScript doubles are modelled by exact fixed-point  *)
(* arithmetic: on the input grid used here danger is exact and a score is  *)
(* within 4 millionths of the real value (one floor per contribution).     *)
(* NaN is the JavaScript NaN; an absent key of an object is an absent      *)
(* element of the DOMAIN of the function that models the object.           *)
(***************************************************************************)
EXTENDS Integers, Sequences, FiniteSets, TLC

VARIABLES thresholds, weatherMeta, factors, candidates, result, probe, pc,
          engine, regions, climateOffset, call, previousValues, location, cache, pending

\* the classifier object and the position of its caller
classifierVars == <<thresholds, weatherMeta, factors, candidates, result, probe, pc>>

\* the distance-decay engine object and the engine call that returned last
engineVars == <<engine, regions, climateOffset, call>>

\* the weather service object: the last value of each trended quantity, the
\* location and the cache of DSOWeatherService, and its calls in flight
serviceVars == <<previousValues, location, cache, pending>>

vars == <<thresholds, weatherMeta, factors, candidates, result, probe, pc,
          engine, regions, climateOffset, call, previousValues, location, cache, pending>>

\* ------------------------------------------------------------------ values
NaN == -1
NA == -2
NULL == "null"
\* no call has returned yet / nothing is remembered
NoResult == [primary |-> NULL]
NoProbe == <<>>
\* the program has no DSOWeatherService object
NoService == "none"
MICRO == 1000000

Abs(x) == IF x < 0 THEN -x ELSE x
Max0(x) == IF x = NaN THEN NaN ELSE IF x < 0 THEN 0 ELSE x

\* JavaScript relational operators on numbers: any comparison with NaN is false
JsLt(a, b) == a # NaN /\ b # NaN /\ a < b
JsGt(a, b) == a # NaN /\ b # NaN /\ a > b
JsGe(a, b) == a # NaN /\ b # NaN /\ a >= b
JsLe(a, b) == a # NaN /\ b # NaN /\ a <= b

\* ------------------------------------------------------------ the tables
Crit(f, mn, mx, ty) == [factor |-> f, min |-> mn, max |-> mx, typical |-> ty, limit |-> NA]
InvCrit(f, lim) == [factor |-> f, min |-> NA, max |-> NA, typical |-> NA, limit |-> lim]

\* Object.entries(this.thresholds) visits the types in this order
TypeOrder ==
    << "TORNADO", "SUPERCELL", "SEVERE_TSTORM", "DERECHO", "THUNDERSTORM", "SHOWERS",
       "RAIN", "DRIZZLE", "BLIZZARD", "WINTER_STORM", "ICE_STORM", "FREEZING_RAIN",
       "SNOW", "WINTER_MIX", "BOMB_CYCLONE", "HIGH_WIND", "FOG", "CLOUDY",
       "PARTLY_CLOUDY", "FAIR" >>

Types == {TypeOrder[i] : i \in 1..Len(TypeOrder)}

InitThresholds ==
    [t \in Types |->
      CASE t = "TORNADO" ->
             << Crit("catalyst", 50, NA, 80), Crit("gradient", 45, NA, 72),
                Crit("fuel", 40, NA, 49), Crit("danger", 50000, NA, 150000),
                InvCrit("inversionMax", 1000) >>
        [] t = "SUPERCELL" ->
             << Crit("catalyst", 40, NA, 65), Crit("gradient", 35, NA, 55),
                Crit("fuel", 35, NA, 45), Crit("danger", 30000, NA, 80000) >>
        [] t = "SEVERE_TSTORM" ->
             << Crit("catalyst", 25, NA, 50), Crit("gradient", 10, NA, 30),
                Crit("fuel", 30, NA, 45), Crit("danger", 5000, NA, 30000) >>
        [] t = "DERECHO" ->
             << Crit("catalyst", NA, 35, NA), Crit("fuel", 65, NA, NA),
                Crit("gradient", 20, 50, NA), Crit("solarAngle", 70, NA, NA) >>
        [] t = "THUNDERSTORM" ->
             << Crit("fuel", 35, NA, NA), Crit("solarAngle", 50, NA, NA),
                Crit("catalyst", 15, NA, NA) >>
        [] t = "SHOWERS" ->
             << Crit("fuel", 25, NA, NA), Crit("solarAngle", 40, NA, NA) >>
        [] t = "RAIN" ->
             << Crit("fuel", 20, NA, NA), Crit("gradient", 5, NA, NA) >>
        [] t = "DRIZZLE" ->
             << Crit("fuel", 15, 35, NA), Crit("gradient", NA, 15, NA) >>
        [] t = "BLIZZARD" ->
             << Crit("catalyst", 60, NA, NA), Crit("fuel", NA, 30, NA),
                Crit("solarAngle", NA, 55, NA), Crit("gradient", 25, NA, NA),
                InvCrit("inversionMin", 1000) >>
        [] t = "WINTER_STORM" ->
             << Crit("catalyst", 40, NA, NA), Crit("fuel", NA, 40, NA),
                Crit("solarAngle", NA, 60, NA), Crit("gradient", 10, NA, NA) >>
        [] t = "ICE_STORM" ->
             << Crit("catalyst", 30, NA, NA), Crit("fuel", 25, 50, NA),
                Crit("solarAngle", 45, 65, NA), Crit("gradient", 15, NA, NA) >>
        [] t = "FREEZING_RAIN" ->
             << Crit("fuel", 20, 45, NA), Crit("solarAngle", 40, 60, NA) >>
        [] t = "SNOW" ->
             << Crit("fuel", NA, 35, NA), Crit("solarAngle", NA, 55, NA) >>
        [] t = "WINTER_MIX" ->
             << Crit("fuel", 20, 45, NA), Crit("solarAngle", 45, 65, NA) >>
        [] t = "BOMB_CYCLONE" ->
             << Crit("catalyst", 55, NA, NA), InvCrit("inversionMin", 1200),
                Crit("fuel", 40, NA, NA) >>
        [] t = "HIGH_WIND" ->
             << Crit("catalyst", 35, NA, NA), Crit("gradient", 20, NA, NA) >>
        [] t = "FOG" ->
             << Crit("catalyst", NA, 25, NA), Crit("gradient", NA, 10, NA),
                Crit("fuel", 20, 50, NA) >>
        [] t = "CLOUDY" ->
             << Crit("fuel", 15, NA, NA), Crit("gradient", NA, 20, NA) >>
        [] t = "PARTLY_CLOUDY" ->
             << Crit("fuel", 10, 40, NA) >>
        [] t = "FAIR" ->
             << Crit("fuel", NA, 25, NA), Crit("gradient", NA, 15, NA),
                Crit("catalyst", NA, 30, NA) >>]

Meta(sev, cat) == [severity |-> sev, category |-> cat]

InitWeatherMeta ==
    [t \in Types |->
      CASE t = "TORNADO" -> Meta(10, "severe")
        [] t = "SUPERCELL" -> Meta(9, "severe")
        [] t = "SEVERE_TSTORM" -> Meta(8, "severe")
        [] t = "DERECHO" -> Meta(8, "severe")
        [] t = "BOMB_CYCLONE" -> Meta(8, "winter")
        [] t = "BLIZZARD" -> Meta(7, "winter")
        [] t = "ICE_STORM" -> Meta(7, "winter")
        [] t = "WINTER_STORM" -> Meta(6, "winter")
        [] t = "HIGH_WIND" -> Meta(5, "wind")
        [] t = "THUNDERSTORM" -> Meta(5, "convective")
        [] t = "FREEZING_RAIN" -> Meta(5, "winter")
        [] t = "SNOW" -> Meta(4, "winter")
        [] t = "WINTER_MIX" -> Meta(4, "winter")
        [] t = "SHOWERS" -> Meta(3, "rain")
        [] t = "RAIN" -> Meta(3, "rain")
        [] t = "DRIZZLE" -> Meta(2, "rain")
        [] t = "FOG" -> Meta(2, "visibility")
        [] t = "CLOUDY" -> Meta(1, "clouds")
        [] t = "PARTLY_CLOUDY" -> Meta(1, "clouds")
        [] t = "FAIR" -> Meta(0, "clear")]

\* ------------------------------------------------------------ factor sets
CoreFactors == {"catalyst", "gradient", "fuel", "solarAngle"}

AllKeys == CoreFactors \cup {"inversionRatio", "danger"}

Has(fs, k) == k \in DOMAIN fs

\* the value an arithmetic expression sees for a property: ToNumber(undefined) is NaN
Num(fs, k) == IF Has(fs, k) THEN fs[k] ELSE NaN

Numeric(x) == x # NaN

\* a value is truthy unless it is 0 or NaN (undefined is handled by Has)
Truthy(x) == x # NaN /\ x # 0

\* fuel * gradient * catalyst^2 * solarAngle^2, hundredths in, millionths out
DangerProduct(f, g, c, s) ==
    IF f = NaN \/ g = NaN \/ c = NaN \/ s = NaN THEN NaN
    ELSE (((f * g * c * c) \div 10000) * (s * s)) \div 100

\* catalyst / (solarAngle + 0.1), hundredths in, thousandths out
getInversionRatio(c, s) == (c * 1000) \div (s + 10)

\* { ...factors, danger: danger || (fuel * gradient * catalyst^2 * solarAngle^2) }
augmentedFactors(fs) ==
    [k \in (DOMAIN fs) \cup {"danger"} |->
        IF k = "danger"
        THEN IF Has(fs, "danger") /\ Truthy(fs["danger"])
             THEN fs["danger"]
             ELSE DangerProduct(Num(fs, "fuel"), Num(fs, "gradient"),
                                Num(fs, "catalyst"), Num(fs, "solarAngle"))
        ELSE fs[k]]

\* ------------------------------------------------------- meetsThreshold
\* CriterionMet with exclusive bounds (<= and >= where the code has < and >)
CriterionMet_Exclusive(af, c) ==
    IF c.factor = "inversionMin"
    THEN ~(Has(af, "inversionRatio") /\ JsLe(af["inversionRatio"], c.limit))
    ELSE IF c.factor = "inversionMax"
    THEN ~(Has(af, "inversionRatio") /\ JsGe(af["inversionRatio"], c.limit))
    ELSE IF ~Has(af, c.factor) THEN TRUE
    ELSE /\ ~(c.min # NA /\ JsLe(af[c.factor], c.min))
         /\ ~(c.max # NA /\ JsGe(af[c.factor], c.max))

\* CriterionMet that fails a type on a named factor that is absent
CriterionMet_AbsentFails(af, c) ==
    IF c.factor = "inversionMin"
    THEN ~(Has(af, "inversionRatio") /\ JsLt(af["inversionRatio"], c.limit))
    ELSE IF c.factor = "inversionMax"
    THEN ~(Has(af, "inversionRatio") /\ JsGt(af["inversionRatio"], c.limit))
    ELSE IF ~Has(af, c.factor) THEN FALSE
    ELSE /\ ~(c.min # NA /\ JsLt(af[c.factor], c.min))
         /\ ~(c.max # NA /\ JsGt(af[c.factor], c.max))

\* one iteration of the loop of meetsThreshold: FALSE is "return false"
CriterionMet(af, c) ==
    IF c.factor = "inversionMin"
    THEN ~(Has(af, "inversionRatio") /\ JsLt(af["inversionRatio"], c.limit))
    ELSE IF c.factor = "inversionMax"
    THEN ~(Has(af, "inversionRatio") /\ JsGt(af["inversionRatio"], c.limit))
    ELSE IF ~Has(af, c.factor) THEN TRUE
    ELSE /\ ~(c.min # NA /\ JsLt(af[c.factor], c.min))
         /\ ~(c.max # NA /\ JsGt(af[c.factor], c.max))

meetsThreshold(af, threshold) ==
    \A i \in 1..Len(threshold) : CriterionMet(af, threshold[i])

\* ------------------------------------------------------- calculateScore
Unit(factor) == IF factor = "danger" THEN MICRO ELSE 100

IsInversion(c) == c.factor \in {"inversionMin", "inversionMax"}

\* the criteria the loop of calculateScore counts (checks++)
Counted(af, c) == ~IsInversion(c) /\ c.limit = NA /\ Has(af, c.factor)

\* what one counted criterion adds to score, in millionths
Contribution(value, c) ==
    IF c.typical # NA
    THEN IF value = NaN THEN NaN
         ELSE Max0(Unit(c.factor) - Abs(value - c.typical)) * (MICRO \div Unit(c.factor))
    ELSE IF c.min # NA /\ c.max # NA
    THEN IF value = NaN THEN NaN
         ELSE Max0(MICRO - ((Abs(2 * value - (c.min + c.max)) * MICRO)
                              \div (2 * (c.max - c.min))))
    ELSE IF c.min # NA
    THEN IF JsGe(value, c.min)
         THEN ((value - c.min) * MICRO) \div (Unit(c.factor) - c.min)
         ELSE 0
    ELSE IF c.max # NA
    THEN IF JsLe(value, c.max)
         THEN ((c.max - value) * MICRO) \div c.max
         ELSE 0
    ELSE 0

JsAdd(a, b) == IF a = NaN \/ b = NaN THEN NaN ELSE a + b

RECURSIVE ScoreLoop(_, _, _)
\* score and checks after the first i criteria
ScoreLoop(af, threshold, i) ==
    IF i = 0 THEN [score |-> 0, checks |-> 0]
    ELSE LET prev == ScoreLoop(af, threshold, i - 1)
             c == threshold[i]
         IN  IF Counted(af, c)
             THEN [score |-> JsAdd(prev.score, Contribution(af[c.factor], c)),
                   checks |-> prev.checks + 1]
             ELSE prev

\* calculateScore returning the sum instead of the mean
calculateScore_Sum(af, threshold) ==
    ScoreLoop(af, threshold, Len(threshold)).score

calculateScore(af, threshold) ==
    LET r == ScoreLoop(af, threshold, Len(threshold))
    IN  IF r.checks > 0
        THEN IF r.score = NaN THEN NaN ELSE r.score \div r.checks
        ELSE 0

\* ------------------------------------------------- getTemperatureRegime
\* tempScore = solarAngle * 0.6 + fuel * 0.4, in thousandths
TempScore(solarAngle, fuel) ==
    IF solarAngle = NaN \/ fuel = NaN THEN NaN ELSE 6 * solarAngle + 4 * fuel

\* getTemperatureRegime with <= at the band limits
getTemperatureRegime_Inclusive(solarAngle, fuel) ==
    LET tempScore == TempScore(solarAngle, fuel)
    IN  IF JsLe(tempScore, 350) THEN "COLD"
        ELSE IF JsLe(tempScore, 500) THEN "COOL"
        ELSE IF JsLe(tempScore, 650) THEN "MILD"
        ELSE IF JsLe(tempScore, 800) THEN "WARM"
        ELSE "HOT"

getTemperatureRegime(solarAngle, fuel) ==
    LET tempScore == TempScore(solarAngle, fuel)
    IN  IF JsLt(tempScore, 350) THEN "COLD"
        ELSE IF JsLt(tempScore, 500) THEN "COOL"
        ELSE IF JsLt(tempScore, 650) THEN "MILD"
        ELSE IF JsLt(tempScore, 800) THEN "WARM"
        ELSE "HOT"

\* ------------------------------------------------------------- classify
\* this.weatherMeta[type]?.severity || 0
Severity(type) == IF type \in DOMAIN weatherMeta THEN weatherMeta[type].severity ELSE 0

\* Compare ranking by match score alone
Compare_ScoreOnly(a, b) ==
    IF a.score = NaN \/ b.score = NaN THEN 0 ELSE b.score - a.score

\* the comparator handed to candidates.sort; a NaN result counts as +0
Compare(a, b) ==
    LET sevA == Severity(a.type)
        sevB == Severity(b.type)
    IN  IF sevB # sevA THEN sevB - sevA
        ELSE IF a.score = NaN \/ b.score = NaN THEN 0
        ELSE b.score - a.score

RECURSIVE InsertAt(_, _, _)
\* the index after which x goes: x passes every element that must follow it
InsertAt(sorted, x, j) ==
    IF j = 0 \/ Compare(sorted[j], x) <= 0 THEN j
    ELSE InsertAt(sorted, x, j - 1)

RECURSIVE SortLoop(_, _)
\* Array.prototype.sort: stable, here by insertion of element i into 1..i-1.
\* With a NaN score among three candidates of severity 8 the comparator is not
\* consistent and the order is implementation-defined; the candidates arrive in
\* table order (the NaN-scored SEVERE_TSTORM first), for which binary insertion
\* and merge sort both leave it first and order the others by score, as here.
SortLoop(arr, i) ==
    IF i = 0 THEN <<>>
    ELSE LET sorted == SortLoop(arr, i - 1)
             j == InsertAt(sorted, arr[i], Len(sorted))
         IN  SubSeq(sorted, 1, j) \o <<arr[i]>> \o SubSeq(sorted, j + 1, Len(sorted))

Sort(arr) == SortLoop(arr, Len(arr))

RECURSIVE PassingLoop(_, _)
\* the candidates pushed after the first i types of Object.entries(this.thresholds)
PassingLoop(af, i) ==
    IF i = 0 THEN <<>>
    ELSE LET type == TypeOrder[i]
             prev == PassingLoop(af, i - 1)
         IN  IF type \in DOMAIN thresholds /\ meetsThreshold(af, thresholds[type])
             THEN Append(prev, [type |-> type,
                                score |-> calculateScore(af, thresholds[type])])
             ELSE prev

\* the local array candidates after the sort
SortedCandidates(fs) == Sort(PassingLoop(augmentedFactors(fs), Len(TypeOrder)))

RECURSIVE FindWinter(_, _)
\* candidates.find(c => category === 'winter'), from index i on; 0 is undefined
FindWinter(cands, i) ==
    IF i > Len(cands) THEN 0
    ELSE IF cands[i].type \in DOMAIN weatherMeta
            /\ weatherMeta[cands[i].type].category = "winter" THEN i
    ELSE FindWinter(cands, i + 1)

\* the primary after the temperature-regime adjustment
AdjustPrimary(cands, tempRegime, primary) ==
    IF tempRegime \in {"COLD", "COOL"}
    THEN LET w == FindWinter(cands, 1)
         IN  IF w # 0 /\ JsGt(cands[w].score, 300000) THEN cands[w].type ELSE primary
    ELSE primary

\* Number.prototype.toFixed(3), millionths in, thousandths out
ToFixed3(score) == IF score = NaN THEN NaN ELSE (score + 500) \div 1000

Min(a, b) == IF a = NaN \/ b = NaN THEN NaN ELSE IF a < b THEN a ELSE b

\* AllCandidates without the slice
AllCandidates_NoSlice(cands) ==
    [i \in 1..Len(cands) |-> [type |-> cands[i].type, score |-> ToFixed3(cands[i].score)]]

\* candidates.slice(0, 5).map(...)
AllCandidates(cands) ==
    [i \in 1..(IF Len(cands) < 5 THEN Len(cands) ELSE 5) |->
        [type |-> cands[i].type, score |-> ToFixed3(cands[i].score)]]

\* candidates[0]?.type || 'FAIR'
FirstType(cands) == IF Len(cands) >= 1 THEN cands[1].type ELSE "FAIR"

\* candidates[1]?.type || null
SecondType(cands) == IF Len(cands) >= 2 THEN cands[2].type ELSE NULL

\* FirstScore without the || 0.5 fallback (undefined reads as 0 here)
FirstScore_NoFallback(cands) ==
    IF Len(cands) >= 1 /\ Numeric(cands[1].score) THEN cands[1].score ELSE 0

\* candidates[0]?.score || 0.5
FirstScore(cands) ==
    IF Len(cands) >= 1 /\ Truthy(cands[1].score) THEN cands[1].score ELSE 500000

\* the object classify returns, from the sorted candidates
ResultOf(fs, cands) ==
    LET tempRegime == getTemperatureRegime(Num(fs, "solarAngle"), Num(fs, "fuel"))
        primary == AdjustPrimary(cands, tempRegime, FirstType(cands))
        meta == IF primary \in DOMAIN weatherMeta THEN weatherMeta[primary]
                ELSE weatherMeta["FAIR"]
    IN  [primary |-> primary,
         secondary |-> SecondType(cands),
         confidence |-> Min(MICRO, FirstScore(cands)),
         severity |-> meta.severity,
         category |-> meta.category,
         tempRegime |-> tempRegime,
         allCandidates |-> AllCandidates(cands)]

classify(fs) == ResultOf(fs, SortedCandidates(fs))

\* -------------------------------------------- no engine in the program
\* an engine-less program: the engine variables hold fixed values
EngineIdle ==
    /\ engine = "none"
    /\ regions = <<>>
    /\ climateOffset = 0
    /\ call = [op |-> "none"]
    /\ previousValues = <<>>
    /\ location = NoService
    /\ cache = NoService
    /\ pending = <<>>

\* ----------------------------------------------------------- the inputs
MaxLevel == 10

\* the values a factor takes: 0.0, 0.1, ... up to MaxLevel steps
FactorValues == {k * 10 : k \in 0..MaxLevel}

Restrict(f, D) == [k \in D |-> f[k]]

\* the factor set calculateFactors builds for the four base factors
FullFactorSet(c, g, f, s) ==
    [k \in CoreFactors \cup {"inversionRatio", "danger"} |->
        CASE k = "catalyst" -> c
          [] k = "gradient" -> g
          [] k = "fuel" -> f
          [] k = "solarAngle" -> s
          [] k = "inversionRatio" -> getInversionRatio(c, s)
          [] k = "danger" -> DangerProduct(f, g, c, s)]

\* a derived key can be present only with the factors it is derived from
Shapes ==
    {D \in SUBSET (CoreFactors \cup {"inversionRatio", "danger"}) :
        /\ "inversionRatio" \in D => {"catalyst", "solarAngle"} \subseteq D
        /\ "danger" \in D => CoreFactors \subseteq D}

\* factor sets as a caller hands them to classify: complete, or with keys left out
Inputs ==
    {Restrict(FullFactorSet(c, g, f, s), D) :
        c \in FactorValues, g \in FactorValues, f \in FactorValues,
        s \in FactorValues, D \in Shapes}

\* ---------------------------------------------------- the state machine
Init ==
    /\ thresholds = InitThresholds
    /\ weatherMeta = InitWeatherMeta
    /\ factors \in Inputs
    /\ candidates = <<>>
    /\ result = NoResult
    /\ probe = NoProbe
    /\ pc = "idle"
    /\ EngineIdle

\* a call whose candidates array lives on across calls instead of starting empty
Call_SharedCandidates(fs) ==
    /\ factors' = fs
    /\ candidates' = Sort(candidates \o PassingLoop(augmentedFactors(fs), Len(TypeOrder)))
    /\ result' = ResultOf(fs, candidates')
    /\ UNCHANGED <<thresholds, weatherMeta>>

\* one call classifier.classify(fs): reads this.thresholds and this.weatherMeta,
\* assigns nothing but its locals
Call(fs) ==
    /\ factors' = fs
    /\ candidates' = SortedCandidates(fs)
    /\ result' = ResultOf(fs, candidates')
    /\ UNCHANGED <<thresholds, weatherMeta>>

Classify ==
    /\ pc = "idle"
    /\ Call(factors)
    /\ pc' = "done"
    /\ UNCHANGED probe
    /\ UNCHANGED engineVars
    /\ UNCHANGED serviceVars

Next == Classify

Spec == Init /\ [][Next]_vars

\* ------------------------------------- several calls on one classifier
\* the factor sets of the repeated calls
IdemInputs ==
    {Restrict(FullFactorSet(c, 40, 40, s), D) :
        c \in {40, 60}, s \in {40, 80},
        D \in {CoreFactors \cup {"inversionRatio", "danger"}, CoreFactors,
               {"gradient", "fuel"}, {}}}

InitIdem ==
    /\ thresholds = InitThresholds
    /\ weatherMeta = InitWeatherMeta
    /\ factors \in IdemInputs
    /\ candidates = <<>>
    /\ result = NoResult
    /\ probe = NoProbe
    /\ pc = "idle"
    /\ EngineIdle

\* the caller keeps the argument and the result of the call that just returned
Remember ==
    /\ pc = "done"
    /\ probe = NoProbe
    /\ probe' = <<[input |-> factors, result |-> result, between |-> FALSE]>>
    /\ UNCHANGED <<thresholds, weatherMeta, factors, candidates, result, pc>>
    /\ UNCHANGED engineVars
    /\ UNCHANGED serviceVars

\* a further call on the same classifier object
Reclassify(fs) ==
    /\ pc = "done"
    /\ Call(fs)
    /\ probe' = IF probe # NoProbe /\ fs # probe[1].input
                THEN <<[probe[1] EXCEPT !.between = TRUE]>>
                ELSE probe
    /\ UNCHANGED pc
    /\ UNCHANGED engineVars
    /\ UNCHANGED serviceVars

NextIdem ==
    \/ Classify
    \/ Remember
    \/ \E fs \in IdemInputs : Reclassify(fs)

SpecIdem == InitIdem /\ [][NextIdem]_vars

\* ------------------------------------------------- reading a call's state
Done == pc = "done"

CandTypes == {candidates[i].type : i \in 1..Len(candidates)}

Complete(fs) == CoreFactors \subseteq DOMAIN fs

\* the factor a criterion is about
RefFactor(c) == IF IsInversion(c) THEN "inversionRatio" ELSE c.factor

\* the factor set gives a value for k; danger not supplied is the product of the four
Gives(fs, k) == Has(fs, k) \/ (k = "danger" /\ Complete(fs))

ValueOf(fs, k) ==
    IF Has(fs, k) THEN fs[k]
    ELSE DangerProduct(fs["fuel"], fs["gradient"], fs["catalyst"], fs["solarAngle"])

\* the criterion as the threshold table states it: inclusive, open where no bound
Satisfied(fs, c) ==
    LET v == ValueOf(fs, RefFactor(c))
    IN  CASE c.factor = "inversionMin" -> v >= c.limit
          [] c.factor = "inversionMax" -> v <= c.limit
          [] OTHER -> (c.min = NA \/ c.min <= v) /\ (c.max = NA \/ v <= c.max)

Criteria(type) == {thresholds[type][i] : i \in 1..Len(thresholds[type])}

\* C1: on a factor set that gives every factor a type's criteria are about, the
\* type is a candidate of classify exactly when all its criteria are satisfied
\* (min <= v <= max inclusive, a missing bound open, inversionRatio against
\* inversionMin / inversionMax).
C1_CandidateIffAllCriteria ==
    Done =>
        \A type \in Types :
            (\A c \in Criteria(type) : Gives(factors, RefFactor(c)))
            => ((type \in CandTypes) <=> (\A c \in Criteria(type) : Satisfied(factors, c)))

\* a complete factor set with catalyst exactly on TORNADO's minimum 0.50: TORNADO
\* is a candidate, FAIR (catalyst max 0.30) is not
C1_Witness ==
    /\ Done
    /\ DOMAIN factors = CoreFactors \cup {"inversionRatio", "danger"}
    /\ factors["catalyst"] = 50
    /\ "TORNADO" \in CandTypes
    /\ "FAIR" \notin CandTypes

\* ---------------------------------------------------------------- order
\* a list of {type, score} is in order: severity descending, and score descending
\* among entries of one severity (where both scores are numbers)
InOrder(list) ==
    \A i, j \in 1..Len(list) :
        i < j =>
            /\ Severity(list[i].type) >= Severity(list[j].type)
            /\ (Severity(list[i].type) = Severity(list[j].type)
                /\ Numeric(list[i].score) /\ Numeric(list[j].score))
               => list[i].score >= list[j].score

OverrideRegime == result.tempRegime \in {"COLD", "COOL"}

\* C2: the passing candidates are ordered by severity descending, then score
\* descending; in regime MILD, WARM or HOT the primary is the first of them, so
\* no passing candidate is more severe than the primary.
C2_SeverityFirst ==
    Done =>
        /\ InOrder(candidates)
        /\ (~OverrideRegime /\ candidates # <<>>)
           => /\ result.primary = candidates[1].type
              /\ \A i \in 1..Len(candidates) :
                     Severity(candidates[i].type) <= result.severity

\* a MILD/WARM/HOT call in which a less severe candidate scores higher than the
\* primary
C2_Witness ==
    /\ Done
    /\ Complete(factors)
    /\ ~OverrideRegime
    /\ \E i \in 2..Len(candidates) :
          /\ Severity(candidates[i].type) < result.severity
          /\ candidates[i].score > candidates[1].score
          /\ result.primary = candidates[1].type

IsWinterOver(c) ==
    weatherMeta[c.type].category = "winter" /\ Numeric(c.score) /\ c.score > 300000

\* C3 (as claimed, on factor sets with every key): in regime COLD or COOL, if
\* some passing candidate is of category winter with score > 0.3, the primary is
\* a winter candidate with score > 0.3.
C3_WinterOverride ==
    (Done /\ DOMAIN factors = AllKeys /\ OverrideRegime
          /\ \E i \in 1..Len(candidates) : IsWinterOver(candidates[i]))
    => \E i \in 1..Len(candidates) :
          result.primary = candidates[i].type /\ IsWinterOver(candidates[i])

\* C4: when no type passes, classify returns FAIR with confidence 0.5, secondary
\* null, severity 0 and an empty candidate list.
C4_DefaultFair ==
    (Done /\ candidates = <<>>)
    => /\ result.primary = "FAIR"
       /\ result.confidence = 500000
       /\ result.secondary = NULL
       /\ result.severity = 0
       /\ result.allCandidates = <<>>

\* a call on a complete factor set that no type's thresholds accept
C4_Witness == Done /\ Complete(factors) /\ candidates = <<>>

ListedTypes == {result.allCandidates[i].type : i \in 1..Len(result.allCandidates)}

\* C5 (as claimed, on factor sets with every key): the returned candidate list
\* has one entry for every type whose thresholds matched, ordered by severity
\* then score.
C5_EveryPassingListed ==
    (Done /\ DOMAIN factors = AllKeys) =>
        /\ ListedTypes = CandTypes
        /\ Len(result.allCandidates) = Len(candidates)
        /\ InOrder(result.allCandidates)

\* C5 (amended): the returned list is the first five passing candidates of the
\* severity-then-score order (all of them when at most five pass), one entry per
\* type, in that order.
C5_FirstFiveListed ==
    Done =>
        /\ Len(result.allCandidates) = (IF Len(candidates) < 5 THEN Len(candidates) ELSE 5)
        /\ \A i \in 1..Len(result.allCandidates) :
              result.allCandidates[i].type = candidates[i].type
        /\ Cardinality(ListedTypes) = Len(result.allCandidates)
        /\ InOrder(result.allCandidates)
        /\ \A t \in CandTypes \ ListedTypes :
              \A l \in ListedTypes : Severity(t) <= Severity(l)

\* a call in which more than five types pass
C5_Witness == Done /\ Complete(factors) /\ Len(candidates) > 5 /\ Len(result.allCandidates) = 5

\* C6: the regime classify reports is the band of tempScore = 0.6*solarAngle +
\* 0.4*fuel: COLD below 0.35, COOL in [0.35, 0.50), MILD in [0.50, 0.65), WARM in
\* [0.65, 0.80), HOT from 0.80 on; exactly one band holds.
C6_RegimeBands ==
    (Done /\ Has(factors, "solarAngle") /\ Has(factors, "fuel"))
    => LET t == 6 * factors["solarAngle"] + 4 * factors["fuel"]
           r == result.tempRegime
       IN  /\ (r = "COLD") <=> (t < 350)
           /\ (r = "COOL") <=> (350 <= t /\ t < 500)
           /\ (r = "MILD") <=> (500 <= t /\ t < 650)
           /\ (r = "WARM") <=> (650 <= t /\ t < 800)
           /\ (r = "HOT") <=> (800 <= t)

\* a call whose tempScore is exactly the limit 0.50 and is reported MILD
C6_Witness ==
    /\ Done
    /\ Has(factors, "solarAngle") /\ Has(factors, "fuel")
    /\ 6 * factors["solarAngle"] + 4 * factors["fuel"] = 500
    /\ result.tempRegime = "MILD"

\* ------------------------------------------------ absent factors, scores
ScoreOfType(type) ==
    (CHOOSE i \in 1..Len(candidates) : candidates[i].type = type)

\* the criteria of a type that enter its mean: not inversion, factor given
Scored(fs, type) ==
    {c \in Criteria(type) : ~IsInversion(c) /\ Gives(fs, c.factor)}

RECURSIVE SumOf(_, _)
SumOf(fs, cs) ==
    IF cs = {} THEN 0
    ELSE LET c == CHOOSE x \in cs : TRUE
         IN  Contribution(ValueOf(fs, c.factor), c) + SumOf(fs, cs \ {c})

MeanOf(fs, type) ==
    IF Scored(fs, type) = {} THEN 0
    ELSE SumOf(fs, Scored(fs, type)) \div Cardinality(Scored(fs, type))

HasDangerCriterion(type) == \E c \in Criteria(type) : c.factor = "danger"

\* C7 (as claimed): the pass/fail gate still applies a criterion whose factor is
\* absent, so a type with a criterion on an absent catalyst, gradient, fuel or
\* solarAngle does not pass the gate.
C7_GateAppliesAbsent ==
    Done =>
        \A type \in CandTypes :
            \A c \in Criteria(type) :
                c.factor \in CoreFactors => Has(factors, c.factor)

\* C7 (amended): a criterion whose factor is absent is skipped by the gate as it
\* is by the score: a type is a candidate exactly when its criteria on the
\* factors that are given hold, and (for a type without a danger criterion) its
\* score is the mean over the criteria whose factor is given.
C7_AbsentSkippedByBoth ==
    Done =>
        \A type \in Types :
            /\ (type \in CandTypes)
               <=> (\A c \in Criteria(type) :
                       Gives(factors, RefFactor(c)) => Satisfied(factors, c))
            /\ (type \in CandTypes /\ ~HasDangerCriterion(type))
               => candidates[ScoreOfType(type)].score = MeanOf(factors, type)

\* fuel is absent and DERECHO, whose criteria include fuel >= 0.65, is a candidate
\* scored on its three other criteria
C7_Witness ==
    /\ Done
    /\ DOMAIN factors = {"catalyst", "gradient", "solarAngle"}
    /\ "DERECHO" \in CandTypes
    /\ Cardinality(Scored(factors, "DERECHO")) = 3
    /\ candidates[ScoreOfType("DERECHO")].score > 0

\* C8 (as claimed): classify returns one of the 20 types for every factor set,
\* and with the factors missing the result defaults to FAIR.
C8_MissingDefaultsToFair ==
    Done =>
        /\ result.primary \in Types
        /\ (DOMAIN factors = {}) => result.primary = "FAIR"

InUnit(fs) == \A k \in CoreFactors : 0 <= fs[k] /\ fs[k] <= 100

\* C10: on a factor set with catalyst, gradient, fuel and solarAngle in [0,1] the
\* score of every passing candidate is the mean of its per-criterion
\* contributions (inversion criteria excluded) and lies in [0,1]; so does the
\* confidence.
C10_ScoreIsMeanInUnit ==
    (Done /\ Complete(factors) /\ InUnit(factors))
    => /\ \A i \in 1..Len(candidates) :
             /\ candidates[i].score = MeanOf(factors, candidates[i].type)
             /\ 0 <= candidates[i].score /\ candidates[i].score <= MICRO
       /\ 0 <= result.confidence /\ result.confidence <= MICRO

\* a complete in-range call whose primary TORNADO is scored on four criteria, its
\* inversionMax criterion left out, with a score strictly between 0 and 1
C10_Witness ==
    /\ Done /\ DOMAIN factors = AllKeys /\ InUnit(factors)
    /\ candidates # <<>>
    /\ candidates[1].type = "TORNADO"
    /\ Cardinality(Scored(factors, "TORNADO")) = 4
    /\ 0 < candidates[1].score /\ candidates[1].score < MICRO
    /\ result.confidence = candidates[1].score

\* ------------------------------------------------------ repeated calls
\* C9: a call with the factor set of a remembered earlier call returns the
\* remembered result, whatever calls were made in between.
C9_SameInputSameResult ==
    (Done /\ probe # NoProbe /\ factors = probe[1].input)
    => result = probe[1].result

\* the remembered factor set is classified again after a call with another one
C9_Witness ==
    /\ Done /\ probe # NoProbe
    /\ probe[1].between
    /\ factors = probe[1].input
    /\ result = probe[1].result
    /\ Len(candidates) > 1


\* ======================================================================
\* DSOWeatherEngine, the distance-decay engine (noaaWeatherService.js) and the
\* scalar-lookup engine (dso-classifier.js).
\*
\* Numbers.  Factors, indices, ratios, radians and degrees Celsius are held in
\* units of 1e-4 (E4 is 1.0); latitudes in hundredths of a degree; distances
\* in km; days of the year as integers.  Math.sin, Math.cos and Math.exp are
\* computed by their power series in this fixed point after range reduction;
\* a value is within about 3e-4 of the double the code computes.
\* ======================================================================
E4 == 10000
PI4 == 31416
HalfPi4 == 15708
TwoPi4 == 62832

\* a / b rounded to the nearest integer (b > 0)
RDiv(a, b) == (2 * a + b) \div (2 * b)

\* the product of two numbers in units of 1e-4
Times(a, b) == RDiv(a * b, E4)

\* the product of two JavaScript values that are NaN or not negative
JsMul(a, b) == IF a = NaN \/ b = NaN THEN NaN ELSE Times(a, b)

\* Math.sin on [0, pi/4]: x - x^3/3! + x^5/5! - x^7/7!
SinSmall(x) ==
    LET y == RDiv(x * x, E4)
        t3 == E4 - RDiv(y, 42)
        t2 == E4 - RDiv(RDiv(y * t3, E4), 20)
        t1 == E4 - RDiv(RDiv(y * t2, E4), 6)
    IN  RDiv(x * t1, E4)

\* Math.cos on [0, pi/4]: 1 - x^2/2! + x^4/4! - x^6/6! + x^8/8!
CosSmall(x) ==
    LET y == RDiv(x * x, E4)
        t4 == E4 - RDiv(y, 56)
        t3 == E4 - RDiv(RDiv(y * t4, E4), 30)
        t2 == E4 - RDiv(RDiv(y * t3, E4), 12)
    IN  E4 - RDiv(RDiv(y * t2, E4), 2)

\* Math.sin on [0, pi/2]
SinQuadrant(x) == IF 4 * x <= PI4 THEN SinSmall(x) ELSE CosSmall(HalfPi4 - x)

\* Math.sin, radians in 1e-4 in, 1e-4 out
Sin(x) ==
    LET r == x % TwoPi4
    IN  IF r <= HalfPi4 THEN SinQuadrant(r)
        ELSE IF r <= PI4 THEN SinQuadrant(PI4 - r)
        ELSE IF r <= PI4 + HalfPi4 THEN -SinQuadrant(r - PI4)
        ELSE -SinQuadrant(TwoPi4 - r)

\* Math.cos
Cos(x) == Sin(x + HalfPi4)

RECURSIVE ExpNegInt(_)
\* Math.exp(-n) for a natural number n
ExpNegInt(n) ==
    IF n = 0 THEN E4
    ELSE IF n > 10 THEN 0
    ELSE RDiv(ExpNegInt(n - 1) * 3679, E4)

\* Math.exp(-r) for 0 <= r < 1: the series in Horner form up to r^8/8!
ExpNegFrac(r) ==
    LET t8 == E4 - RDiv(r, 8)
        t7 == E4 - RDiv(RDiv(r * t8, E4), 7)
        t6 == E4 - RDiv(RDiv(r * t7, E4), 6)
        t5 == E4 - RDiv(RDiv(r * t6, E4), 5)
        t4 == E4 - RDiv(RDiv(r * t5, E4), 4)
        t3 == E4 - RDiv(RDiv(r * t4, E4), 3)
        t2 == E4 - RDiv(RDiv(r * t3, E4), 2)
    IN  E4 - RDiv(r * t2, E4)

\* Math.exp(-u) for u >= 0
ExpNeg(u) == RDiv(ExpNegInt(u \div E4) * ExpNegFrac(u % E4), E4)

\* (2 * Math.PI * n) / 365.25 for a whole number of days n
YearPhase(n) == RDiv(TwoPi4 * 4 * n, 1461)

\* Math.max(0, Math.min(1, x))
Clamp01(x) == IF x = NaN THEN NaN ELSE IF x > E4 THEN E4 ELSE IF x < 0 THEN 0 ELSE x

\* --------------------------------------------- objects and their properties
\* the value of a property that is not there
Undefined == [k \in {} |-> 0]

IsUndefined(v) == DOMAIN v = {}

\* property names every object inherits from Object.prototype
ObjectPrototypeKeys == {"constructor", "toString", "valueOf", "hasOwnProperty"}

\* obj[key]: the own property, else the function Object.prototype has under
\* that name (a truthy object whose only property read here is its name)
GetProp(obj, key) ==
    IF key \in DOMAIN obj THEN obj[key]
    ELSE IF key \in ObjectPrototypeKeys
    THEN [name |-> IF key = "constructor" THEN "Object" ELSE key]
    ELSE Undefined

\* ------------------------------------------------------------ dates
\* a Date is a month and a day of a year of 365 days, in an environment whose
\* local time is UTC
DaysIn(month) ==
    IF month = 2 THEN 28 ELSE IF month \in {4, 6, 9, 11} THEN 30 ELSE 31

Dates == {date \in [month : 1..12, day : 1..31] : date.day <= DaysIn(date.month)}

RECURSIVE DaysBefore(_)
DaysBefore(month) == IF month = 1 THEN 0 ELSE DaysBefore(month - 1) + DaysIn(month - 1)

\* Math.floor((date - new Date(year, 0, 0)) / oneDay)
getDayOfYear(date) == DaysBefore(date.month) + date.day

\* date.setDate(date.getDate() + 1)
NextDate(date) ==
    IF date.day < DaysIn(date.month) THEN [date EXCEPT !.day = date.day + 1]
    ELSE IF date.month < 12 THEN [month |-> date.month + 1, day |-> 1]
    ELSE [month |-> 1, day |-> 1]

\* ------------------------------------- the distance-decay engine's factors
RegionConfig(name, lat, lon, dist, elev, zone) ==
    [name |-> name, lat |-> lat, lon |-> lon, gulfDistance |-> dist,
     elevation |-> elev, gradientZone |-> zone]

\* this.regions as the constructor sets it (lat and lon rounded to 0.01 degree)
InitRegions ==
    [k \in {"benton_ar", "little_rock", "haskell_ar", "tornado_alley", "dixie_alley"} |->
      CASE k = "benton_ar" -> RegionConfig("Benton, AR", 3456, -9259, 650, 127, 8500)
        [] k = "little_rock" -> RegionConfig("Little Rock, AR", 3475, -9229, 680, 102, 8200)
        [] k = "haskell_ar" -> RegionConfig("Haskell, AR", 3450, -9264, 645, 91, 8600)
        [] k = "tornado_alley" -> RegionConfig("Tornado Alley (OK/KS)", 3550, -9800, 800, 400, 10000)
        [] k = "dixie_alley" -> RegionConfig("Dixie Alley (MS/AL)", 3300, -8800, 350, 150, 7500)]

\* this.gulfSSTBaseline, 26.5 degrees Celsius
gulfSSTBaseline == 265000

\* |23.5 * (2 pi / 365.25) * cos(2 pi (d - 80) / 365.25)| / 0.405
Decay_getCatalyst(dayOfYear) ==
    LET amplitude == RDiv(235 * TwoPi4 * 4, 14610)
        rawValue == Times(amplitude, Cos(YearPhase(dayOfYear - 80)))
    IN  RDiv(Abs(rawValue) * E4, 4050)

\* 23.45 * sin((2 pi / 365.25) * (d - 81)), in thousandths of a degree
Decay_getSolarDeclination(dayOfYear) == RDiv(2345 * Sin(YearPhase(dayOfYear - 81)), 1000)

\* degrees to radians: latitude in hundredths of a degree
LatRad(lat) == RDiv(lat * PI4, 18000)

\* the sine of the solar elevation at noon
SinAlpha(latRad, decRad) ==
    Times(Sin(latRad), Sin(decRad)) + Times(Cos(latRad), Cos(decRad))

Decay_getSolarAngle(dayOfYear, latitude) ==
    IF latitude = NaN THEN NaN
    ELSE LET decRad == RDiv(Decay_getSolarDeclination(dayOfYear) * PI4, 180000)
         IN  Clamp01(SinAlpha(LatRad(latitude), decRad))

\* this.gulfSSTBaseline + 3 sin(2 pi (d - 45) / 365.25) + this.climateOffset
Decay_getGulfSST(offset, dayOfYear) ==
    gulfSSTBaseline + 3 * Sin(YearPhase(dayOfYear - 45)) + offset

Decay_getFuel(offset, dayOfYear, gulfDistance) ==
    IF gulfDistance = NaN THEN NaN
    ELSE LET sst == Decay_getGulfSST(offset, dayOfYear)
             sstNorm == RDiv(sst - 200000, 12)
             distanceDecay == ExpNeg(RDiv(gulfDistance * E4, 1500))
         IN  Clamp01(RDiv(Times(sstNorm, distanceDecay) * 15, 10))

Decay_getGradient(dayOfYear, gradientZone) ==
    LET springPeak == ExpNeg(RDiv((dayOfYear - 100) * (dayOfYear - 100) * E4, 2025))
        fallPeak == RDiv(ExpNeg(RDiv((dayOfYear - 290) * (dayOfYear - 290) * E4, 2500)) * 7, 10)
        gradient == IF springPeak > fallPeak THEN springPeak ELSE fallPeak
    IN  JsMul(gradient, gradientZone)

\* catalyst / (solarAngle + 0.1)
Decay_getInversionRatio(catalyst, solarAngle) ==
    IF catalyst = NaN \/ solarAngle = NaN THEN NaN
    ELSE RDiv(catalyst * E4, solarAngle + 1000)

\* getDischargeMode with >= at its two limits
getDischargeMode_Inclusive(inversionRatio) ==
    IF JsGe(inversionRatio, 12000) THEN "HORIZONTAL"
    ELSE IF JsGe(inversionRatio, 10000) THEN "TRANSITIONAL"
    ELSE "VERTICAL"

getDischargeMode(inversionRatio) ==
    IF JsGt(inversionRatio, 12000) THEN "HORIZONTAL"
    ELSE IF JsGt(inversionRatio, 10000) THEN "TRANSITIONAL"
    ELSE "VERTICAL"

\* fuel * catalyst * solarAngle
getProbability(fuel, catalyst, solarAngle) == JsMul(JsMul(fuel, catalyst), solarAngle)

\* gradient * catalyst * solarAngle
getVolatility(gradient, catalyst, solarAngle) == JsMul(JsMul(gradient, catalyst), solarAngle)

\* the danger index with the catalyst taken once
getDangerIndex_CatalystOnce(fuel, gradient, catalyst, solarAngle) ==
    JsMul(JsMul(JsMul(fuel, gradient), catalyst), JsMul(solarAngle, solarAngle))

\* fuel * gradient * Math.pow(catalyst, 2) * Math.pow(solarAngle, 2)
getDangerIndex(fuel, gradient, catalyst, solarAngle) ==
    JsMul(JsMul(JsMul(fuel, gradient), JsMul(catalyst, catalyst)),
          JsMul(solarAngle, solarAngle))

\* ------------------------------------ the distance-decay engine's methods
Storm(type, severity, color) == [type |-> type, severity |-> severity, color |-> color]

\* classifyStorm testing inversion mode after the convective types
Decay_classifyStorm_InversionLast(fuel, gradient, catalyst, solarAngle, inversionRatio) ==
    LET volatility == getVolatility(gradient, catalyst, solarAngle)
        danger == getDangerIndex(fuel, gradient, catalyst, solarAngle)
    IN  IF JsGt(gradient, 6000) /\ JsGt(catalyst, 5000) /\ JsGt(volatility, 3500)
        THEN IF JsGt(danger, 1500) THEN Storm("TORNADO", "EXTREME", "#dc2626")
             ELSE IF JsGt(danger, 800) THEN Storm("TORNADO", "HIGH", "#ea580c")
             ELSE Storm("SUPERCELL", "MODERATE", "#f59e0b")
        ELSE IF JsGt(fuel, 7000) /\ JsLt(catalyst, 3000)
        THEN Storm("DERECHO", "MODERATE", "#0891b2")
        ELSE IF JsGt(fuel, 4000) /\ JsGt(solarAngle, 5000)
        THEN IF JsGt(volatility, 2000) THEN Storm("SEVERE_TSTORM", "MODERATE", "#eab308")
             ELSE Storm("THUNDERSTORM", "LOW", "#22c55e")
        ELSE IF JsGt(inversionRatio, 12000)
        THEN IF JsGt(fuel, 5000) THEN Storm("BOMB_CYCLONE", "HIGH", "#9333ea")
             ELSE Storm("WINTER_STORM", "MODERATE", "#3b82f6")
        ELSE IF JsLt(fuel, 3000) \/ JsLt(catalyst, 2000)
        THEN Storm("FAIR", "MINIMAL", "#6b7280")
        ELSE Storm("UNSETTLED", "LOW", "#a3a3a3")

Decay_classifyStorm(fuel, gradient, catalyst, solarAngle, inversionRatio) ==
    LET volatility == getVolatility(gradient, catalyst, solarAngle)
        danger == getDangerIndex(fuel, gradient, catalyst, solarAngle)
    IN  IF JsGt(inversionRatio, 12000)
        THEN IF JsGt(fuel, 5000) THEN Storm("BOMB_CYCLONE", "HIGH", "#9333ea")
             ELSE Storm("WINTER_STORM", "MODERATE", "#3b82f6")
        ELSE IF JsGt(gradient, 6000) /\ JsGt(catalyst, 5000) /\ JsGt(volatility, 3500)
        THEN IF JsGt(danger, 1500) THEN Storm("TORNADO", "EXTREME", "#dc2626")
             ELSE IF JsGt(danger, 800) THEN Storm("TORNADO", "HIGH", "#ea580c")
             ELSE Storm("SUPERCELL", "MODERATE", "#f59e0b")
        ELSE IF JsGt(fuel, 7000) /\ JsLt(catalyst, 3000)
        THEN Storm("DERECHO", "MODERATE", "#0891b2")
        ELSE IF JsGt(fuel, 4000) /\ JsGt(solarAngle, 5000)
        THEN IF JsGt(volatility, 2000) THEN Storm("SEVERE_TSTORM", "MODERATE", "#eab308")
             ELSE Storm("THUNDERSTORM", "LOW", "#22c55e")
        ELSE IF JsLt(fuel, 3000) \/ JsLt(catalyst, 2000)
        THEN Storm("FAIR", "MINIMAL", "#6b7280")
        ELSE Storm("UNSETTLED", "LOW", "#a3a3a3")

getRiskLevel(danger) ==
    IF JsGt(danger, 1500) THEN [level |-> 5, label |-> "EXTREME"]
    ELSE IF JsGt(danger, 800) THEN [level |-> 4, label |-> "HIGH"]
    ELSE IF JsGt(danger, 400) THEN [level |-> 3, label |-> "MODERATE"]
    ELSE IF JsGt(danger, 200) THEN [level |-> 2, label |-> "LOW"]
    ELSE [level |-> 1, label |-> "MINIMAL"]

\* (x * 100).toFixed(0): the percentage a template string shows
Percent(x) == IF x = NaN THEN NaN ELSE RDiv(x, 100)

\* the explanation text: its table key and the percentages it interpolates
getMechanismExplanation(type, fuel, gradient, catalyst) ==
    IF type = "TORNADO" THEN <<type, Percent(gradient), Percent(catalyst)>>
    ELSE IF type = "DERECHO" THEN <<type, Percent(fuel)>>
    ELSE <<type>>

\* what a call leaves its caller with
Returned(v) == [threw |-> FALSE, value |-> v]
Thrown(message) == [threw |-> TRUE, value |-> message]

\* the rest of predict once the region is found and the four factors computed:
\* the ratio, the indices, the classification and the result object
predictFactors(region, offset, date, dayOfYear, catalyst, solarAngle, fuel, gradient) ==
    LET inversionRatio == Decay_getInversionRatio(catalyst, solarAngle)
        dischargeMode == getDischargeMode(inversionRatio)
        probability == getProbability(fuel, catalyst, solarAngle)
        volatility == getVolatility(gradient, catalyst, solarAngle)
        danger == getDangerIndex(fuel, gradient, catalyst, solarAngle)
        classification ==
            Decay_classifyStorm(fuel, gradient, catalyst, solarAngle, inversionRatio)
    IN  Returned(
          [region |-> region["name"],
           date |-> date,
           dayOfYear |-> dayOfYear,
           factors |-> [catalyst |-> catalyst, solarAngle |-> solarAngle,
                        fuel |-> fuel, gradient |-> gradient,
                        inversionRatio |-> inversionRatio,
                        dischargeMode |-> dischargeMode,
                        gulfSST |-> Decay_getGulfSST(offset, dayOfYear)],
           indices |-> [probability |-> probability, volatility |-> volatility,
                        danger |-> danger],
           prediction |-> classification,
           riskLevel |-> getRiskLevel(danger),
           mechanism |-> getMechanismExplanation(classification.type, fuel,
                                                 gradient, catalyst)])

\* predict for a region that is found: the four factors of the day
predictDay(region, offset, date, dayOfYear) ==
    predictFactors(region, offset, date, dayOfYear,
                   Decay_getCatalyst(dayOfYear),
                   Decay_getSolarAngle(dayOfYear, Num(region, "lat")),
                   Decay_getFuel(offset, dayOfYear, Num(region, "gulfDistance")),
                   Decay_getGradient(dayOfYear, Num(region, "gradientZone")))

\* predict(regionId, date) on an engine whose fields are regs and offset
predict(regs, offset, regionId, date) ==
    LET region == GetProp(regs, regionId)
    IN  IF IsUndefined(region) THEN Thrown(<<"Unknown region: ", regionId>>)
        ELSE predictDay(region, offset, date, getDayOfYear(date))

\* results.push(first) onto the results of the later iterations, unless one threw
pushFirst(first, rest) ==
    IF rest.threw THEN rest ELSE Returned(<<first.value>> \o rest.value)

RECURSIVE forecastLoop(_, _, _, _, _)
\* one iteration of the loop of forecast on the outcome of its predict
forecastStep(first, regs, offset, regionId, date, days) ==
    IF first.threw THEN first
    ELSE pushFirst(first, forecastLoop(regs, offset, regionId, NextDate(date), days - 1))

\* the loop of forecast with days iterations left: the first predict that throws
\* ends the call
forecastLoop(regs, offset, regionId, date, days) ==
    IF days = 0 THEN Returned(<<>>)
    ELSE forecastStep(predict(regs, offset, regionId, date), regs, offset, regionId, date, days)

forecast(regs, offset, regionId, startDate, days) ==
    forecastLoop(regs, offset, regionId, startDate, days)

\* ------------------------------------------------ the scalar-lookup engine
RegionalFuel(lat, fuel, gradient) == [lat |-> lat, fuel |-> fuel, gradient |-> gradient]

\* this.REGIONAL_FUEL; no method of the class assigns it
REGIONAL_FUEL ==
    [k \in {"gulf_coast", "dixie_alley", "tornado_alley", "southern_plains", "midwest",
            "northern_plains", "northeast", "southeast", "pacific_nw", "southwest"} |->
      CASE k = "gulf_coast" -> RegionalFuel(3000, 10000, 6000)
        [] k = "dixie_alley" -> RegionalFuel(3400, 9000, 10000)
        [] k = "tornado_alley" -> RegionalFuel(3600, 8000, 10000)
        [] k = "southern_plains" -> RegionalFuel(3300, 8500, 9000)
        [] k = "midwest" -> RegionalFuel(4000, 6500, 8000)
        [] k = "northern_plains" -> RegionalFuel(4500, 4500, 5000)
        [] k = "northeast" -> RegionalFuel(4200, 4000, 4000)
        [] k = "southeast" -> RegionalFuel(3300, 8500, 7500)
        [] k = "pacific_nw" -> RegionalFuel(4700, 3000, 3000)
        [] k = "southwest" -> RegionalFuel(3400, 2500, 2000)]

\* |cos(2 pi (d - 80) / 365.25)|
Lookup_getCatalyst(dayOfYear) == Abs(Cos(YearPhase(dayOfYear - 80)))

\* max(0, sin(asin(sinAlpha))); sinAlpha = cos(lat - declination) is in [-1, 1],
\* where sin(asin(x)) is x
Lookup_getSolarAngle(lat, dayOfYear) ==
    IF lat = NaN THEN NaN
    ELSE LET declination == RDiv(2344 * Sin(YearPhase(dayOfYear - 81)), 1000)
             decRad == RDiv(declination * PI4, 180000)
             sinAlpha == SinAlpha(LatRad(lat), decRad)
         IN  IF sinAlpha < 0 THEN 0 ELSE sinAlpha

\* this.REGIONAL_FUEL[region]?.[field] || 0.5
BaseOf(region, field) ==
    LET regionData == GetProp(REGIONAL_FUEL, region)
    IN  IF Has(regionData, field) /\ Truthy(regionData[field]) THEN regionData[field]
        ELSE 5000

\* getEFuel that leaves the climate offset out of the warming
getEFuel_IgnoresOffset(region, offset) ==
    LET base == BaseOf(region, "fuel")
        warming == 270000 - 260000
        adjusted == Times(base, E4 + RDiv(warming, 10))
    IN  IF adjusted > E4 THEN E4 ELSE adjusted

\* min(1, base * (1 + 1.0 * (27.0 - 26.0 + climateOffset) * 0.1))
getEFuel(region, offset) ==
    LET base == BaseOf(region, "fuel")
        warming == 270000 - 260000 + offset
        adjusted == Times(base, E4 + RDiv(warming, 10))
    IN  IF adjusted > E4 THEN E4 ELSE adjusted

\* max(0, base * (1 - climateOffset * 0.3 * 0.1))
Lookup_getGradient(region, offset) ==
    LET base == BaseOf(region, "gradient")
        arcticWarming == RDiv(offset * 3, 10)
        adjusted == Times(base, E4 - RDiv(arcticWarming, 10))
    IN  IF adjusted < 0 THEN 0 ELSE adjusted

getSolarPunch(lat, dayOfYear) ==
    JsMul(Lookup_getSolarAngle(lat, dayOfYear), Lookup_getCatalyst(dayOfYear))

getTornadoScale(volatility) ==
    IF JsGt(volatility, 9000) THEN "EF5"
    ELSE IF JsGt(volatility, 8000) THEN "EF4"
    ELSE IF JsGt(volatility, 6500) THEN "EF3"
    ELSE IF JsGt(volatility, 5000) THEN "EF2"
    ELSE IF JsGt(volatility, 3500) THEN "EF1"
    ELSE "EF0"

JsSub(a, b) == IF a = NaN \/ b = NaN THEN NaN ELSE a - b

\* the storm types classifyStorm tests, in the order it pushes them, each with
\* its condition and its probability
StormRules(fuel, gradient, catalyst, solarAngle) ==
    LET probability == getProbability(fuel, catalyst, solarAngle)
        volatility == getVolatility(gradient, catalyst, solarAngle)
    IN  << [type |-> "TORNADO",
            when |-> JsGt(gradient, 7000) /\ JsGt(catalyst, 6000) /\ JsGt(volatility, 4000),
            probability |-> volatility],
           [type |-> "SUPERCELL",
            when |-> JsGt(gradient, 5000) /\ JsGt(catalyst, 4000) /\ JsGt(fuel, 5000),
            probability |-> JsMul(probability, gradient)],
           [type |-> "DERECHO",
            when |-> JsGt(fuel, 7500) /\ JsLt(catalyst, 3500) /\ JsLt(gradient, 5000),
            probability |-> JsMul(JsMul(fuel, fuel), JsSub(E4, catalyst))],
           [type |-> "SEVERE_THUNDERSTORM",
            when |-> JsGt(gradient, 3000) /\ JsGt(fuel, 4000) /\ JsGt(solarAngle, 3000),
            probability |-> JsMul(JsMul(fuel, gradient), solarAngle)],
           [type |-> "BLIZZARD",
            when |-> JsGt(gradient, 5000) /\ JsGt(catalyst, 4000) /\ JsLt(solarAngle, 3500),
            probability |-> JsMul(JsMul(gradient, catalyst), JsSub(E4, solarAngle))],
           [type |-> "THUNDERSTORM",
            when |-> JsGt(fuel, 3000) /\ JsGt(solarAngle, 4000),
            probability |-> JsMul(JsMul(fuel, solarAngle), 5000)],
           [type |-> "FLASH_FLOOD_RISK",
            when |-> JsGt(fuel, 7000),
            probability |-> JsMul(fuel, 4000)] >>

RECURSIVE PushedLoop(_, _)
\* results after the first i tests
PushedLoop(rules, i) ==
    IF i = 0 THEN <<>>
    ELSE IF rules[i].when
    THEN Append(PushedLoop(rules, i - 1),
                [type |-> rules[i].type, probability |-> rules[i].probability])
    ELSE PushedLoop(rules, i - 1)

\* the comparison turned round: ascending
CompareProbability_Ascending(a, b) ==
    IF a.probability = NaN \/ b.probability = NaN THEN 0
    ELSE a.probability - b.probability

\* (a, b) => b.probability - a.probability; a NaN result counts as +0
CompareProbability(a, b) ==
    IF a.probability = NaN \/ b.probability = NaN THEN 0
    ELSE b.probability - a.probability

RECURSIVE InsertByProbability(_, _, _)
InsertByProbability(sorted, x, j) ==
    IF j = 0 \/ CompareProbability(sorted[j], x) <= 0 THEN j
    ELSE InsertByProbability(sorted, x, j - 1)

RECURSIVE SortByProbability(_, _)
\* results.sort(...): stable, by insertion of element i into 1..i-1
SortByProbability(arr, i) ==
    IF i = 0 THEN <<>>
    ELSE LET sorted == SortByProbability(arr, i - 1)
             j == InsertByProbability(sorted, arr[i], Len(sorted))
         IN  SubSeq(sorted, 1, j) \o <<arr[i]>> \o SubSeq(sorted, j + 1, Len(sorted))

\* the table key of an entry of results; TORNADO carries its scale
StormEntry(e, volatility) ==
    [type |-> e.type, probability |-> e.probability,
     severity |-> IF e.type = "TORNADO" THEN getTornadoScale(volatility) ELSE "none"]

Lookup_classifyStorm(fuel, gradient, catalyst, solarAngle, lat) ==
    LET probability == getProbability(fuel, catalyst, solarAngle)
        volatility == getVolatility(gradient, catalyst, solarAngle)
        danger == getDangerIndex(fuel, gradient, catalyst, solarAngle)
        pushed == PushedLoop(StormRules(fuel, gradient, catalyst, solarAngle), 7)
        sorted == SortByProbability(pushed, Len(pushed))
        results == [i \in 1..Len(sorted) |-> StormEntry(sorted[i], volatility)]
    IN  [primary |-> IF Len(results) >= 1 THEN results[1]
                     ELSE [type |-> "STABLE", probability |-> 0, severity |-> "none"],
         secondary |-> IF Len(results) >= 2 THEN <<results[2]>> ELSE <<>>,
         all |-> results,
         factors |-> [fuel |-> fuel, gradient |-> gradient, catalyst |-> catalyst,
                      solarAngle |-> solarAngle],
         indices |-> [probability |-> probability, volatility |-> volatility,
                      danger |-> danger]]

\* the five bands the interpret* helpers share above their own limits
Interpret(v, limits, labels) ==
    IF JsGt(v, limits[1]) THEN labels[1]
    ELSE IF JsGt(v, limits[2]) THEN labels[2]
    ELSE IF JsGt(v, limits[3]) THEN labels[3]
    ELSE IF JsGt(v, limits[4]) THEN labels[4]
    ELSE labels[5]

interpretFuel(v) ==
    Interpret(v, <<8500, 7000, 5000, 3000>>, <<"EXTREME", "HIGH", "MODERATE", "LOW", "MINIMAL">>)

interpretGradient(v) ==
    Interpret(v, <<8500, 7000, 5000, 3000>>, <<"EXTREME", "HIGH", "MODERATE", "LOW", "MINIMAL">>)

interpretCatalyst(v) ==
    Interpret(v, <<8500, 6000, 4000, 2000>>, <<"MAXIMUM", "HIGH", "MODERATE", "LOW", "MINIMUM">>)

interpretSolar(v) ==
    Interpret(v, <<8000, 6000, 4000, 2000>>, <<"MAXIMUM", "HIGH", "MODERATE", "LOW", "MINIMAL">>)

\* days of the months of 2024, the year dayOfYearToDate counts in
DaysIn2024(month) == IF month = 2 THEN 29 ELSE DaysIn(month)

RECURSIVE DateIn2024(_, _)
\* new Date(2024, 0, 1).setDate(doy), from the first of the given month
DateIn2024(month, doy) ==
    IF month = 12 \/ doy <= DaysIn2024(month) THEN [month |-> month, day |-> doy]
    ELSE DateIn2024(month + 1, doy - DaysIn2024(month))

dayOfYearToDate(doy) == DateIn2024(1, doy)

\* the product and the message of the signature; its other fields (phiScaled,
\* lucasResonance, gDaggerRatio, isPhiResonant) are functions of the product
computeDSOSignature(fuel, gradient, catalyst, solarAngle) ==
    LET product == JsMul(JsMul(JsMul(fuel, gradient), catalyst), solarAngle)
    IN  [product |-> product,
         message |-> IF JsGt(product, 5000) THEN "HIGH E-GEOMETRY ALIGNMENT"
                     ELSE "Normal conditions"]

\* what infer returns for a region that is not found
ErrorResult(region) == [error |-> <<"Unknown region: ", region>>]

\* the rest of infer once the region is found and the factors computed
inferFactors(region, lat, dayOfYear, offset, fuel, gradient, catalyst, solarAngle, solarPunch, classification) ==
    [region |-> region,
     latitude |-> lat,
     dayOfYear |-> dayOfYear,
     date |-> dayOfYearToDate(dayOfYear),
     climateOffset |-> offset,
     factors |-> [fuel |-> [value |-> fuel, interpretation |-> interpretFuel(fuel)],
                  gradient |-> [value |-> gradient,
                                interpretation |-> interpretGradient(gradient)],
                  catalyst |-> [value |-> catalyst,
                                interpretation |-> interpretCatalyst(catalyst)],
                  solarAngle |-> [value |-> solarAngle,
                                  interpretation |-> interpretSolar(solarAngle)],
                  solarPunch |-> [value |-> solarPunch]],
     indices |-> classification.indices,
     prediction |-> classification.primary,
     alternatives |-> SubSeq(classification.all, 2, Len(classification.all)),
     dsoSignature |-> computeDSOSignature(fuel, gradient, catalyst, solarAngle)]

\* infer with the four factors computed: the solar punch and the classification
inferClassified(region, lat, dayOfYear, offset, fuel, gradient, catalyst, solarAngle) ==
    inferFactors(region, lat, dayOfYear, offset, fuel, gradient, catalyst, solarAngle,
                 getSolarPunch(lat, dayOfYear),
                 Lookup_classifyStorm(fuel, gradient, catalyst, solarAngle, lat))

\* infer for a region that is found, at its latitude
inferRegion(region, lat, dayOfYear, offset) ==
    inferClassified(region, lat, dayOfYear, offset,
                    getEFuel(region, offset),
                    Lookup_getGradient(region, offset),
                    Lookup_getCatalyst(dayOfYear),
                    Lookup_getSolarAngle(lat, dayOfYear))

infer(region, dayOfYear, offset) ==
    LET regionData == GetProp(REGIONAL_FUEL, region)
    IN  IF IsUndefined(regionData) THEN ErrorResult(region)
        ELSE inferRegion(region, Num(regionData, "lat"), dayOfYear, offset)

\* inferYear: one infer for each day 1..365, in order
inferYear(region, offset) == [day \in 1..365 |-> infer(region, day, offset)]

\* compareRegions: one infer for each key of this.REGIONAL_FUEL
compareRegions(dayOfYear, offset) ==
    [region \in DOMAIN REGIONAL_FUEL |-> infer(region, dayOfYear, offset)]

\* ------------------------------------- DSOFactorCalculator (part_001)
RECURSIVE SqrtSearch(_, _, _)
\* the largest r in lo..hi with r * r <= n
SqrtSearch(n, lo, hi) ==
    IF lo = hi THEN lo
    ELSE LET mid == (lo + hi + 1) \div 2
         IN  IF mid * mid <= n THEN SqrtSearch(n, mid, hi) ELSE SqrtSearch(n, lo, mid - 1)

\* Math.sqrt of a whole number, to the whole number below
Sqrt(n) == SqrtSearch(n, 0, 46340)

\* km from 25 N, 90 W at 111 km and 85 km a degree; lat, lon in hundredths
getGulfDistance(lat, lon) ==
    LET latKm == RDiv((lat - 2500) * 111, 100)
        lonKm == RDiv((lon + 9000) * 85, 100)
    IN  Sqrt(latKm * latKm + lonKm * lonKm)

getGradientZone(lat) ==
    IF lat >= 3300 /\ lat <= 4200 THEN 10000
    ELSE IF lat >= 3000 /\ lat < 3300 THEN 8500
    ELSE IF lat >= 4200 /\ lat <= 4800 THEN 7500
    ELSE IF lat >= 2500 /\ lat < 3000 THEN 6000
    ELSE 4000

\* the object calculateFactors returns, from the values it has computed
factorsObject(dayOfYear, gulfDistance, gradientZone, catalyst, solarAngle, fuel, gradient) ==
    [dayOfYear |-> dayOfYear,
     catalyst |-> catalyst,
     solarAngle |-> solarAngle,
     fuel |-> fuel,
     gradient |-> gradient,
     inversionRatio |-> Decay_getInversionRatio(catalyst, solarAngle),
     probability |-> JsMul(JsMul(fuel, catalyst), solarAngle),
     volatility |-> JsMul(JsMul(gradient, catalyst), solarAngle),
     danger |-> JsMul(JsMul(JsMul(fuel, gradient), JsMul(catalyst, catalyst)),
                      JsMul(solarAngle, solarAngle)),
     gulfDistance |-> gulfDistance,
     gradientZone |-> gradientZone]

\* calculateFactors with the day, the distance and the zone computed
factorsOfPlace(dayOfYear, lat, gulfDistance, gradientZone) ==
    factorsObject(dayOfYear, gulfDistance, gradientZone,
                  Decay_getCatalyst(dayOfYear),
                  Decay_getSolarAngle(dayOfYear, lat),
                  Decay_getFuel(0, dayOfYear, gulfDistance),
                  Decay_getGradient(dayOfYear, gradientZone))

\* calculateFactors(dateStr, lat, lon): the factor functions are those of the
\* distance-decay engine with no climate offset
calculateFactors(date, lat, lon) ==
    factorsOfPlace(getDayOfYear(date), lat, getGulfDistance(lat, lon), getGradientZone(lat))

\* ------------------------------------------- a program using one engine
\* The program constructs one DSOWeatherEngine, of the class of
\* noaaWeatherService.js ("decay") or of dso-classifier.js ("lookup"), or one
\* DSOFactorCalculator ("calculator", which has no region table), and calls
\* its methods one after the other; call is the call that returned last
\* and pc = "done" until the caller has taken its outcome.
MaxOffset == 2
MaxForecastDays == 2

\* the warming offsets a caller passes, in whole degrees
Offsets == {k * E4 : k \in 0..MaxOffset}

\* a region a caller adds: 60 N, 300 km from the Gulf
CustomConfig == RegionConfig("Arctic coast", 6000, -15000, 300, 10, 9000)

\* the keys addRegion is called with: a new one and one of the constructor's
CustomIds == {"arctic_coast", "benton_ar"}

\* the keys passed to predict and forecast
DecayKeys == DOMAIN InitRegions \cup {"arctic_coast", "nowhere", "constructor"}

\* the keys passed to infer and inferYear
LookupKeys == DOMAIN REGIONAL_FUEL \cup {"nowhere", "constructor"}

\* the dates a forecast starts on: the first of each month and the last day of
\* the year, from which the second day is in the next year
ForecastStarts == {date \in Dates : date.day = 1 \/ (date.month = 12 /\ date.day = 31)}

\* the dates of the single calls: three days of every month, which include the
\* spring equinox and the solstices (days 80, 172, 355), and the fall equinox
\* (day 266)
EngineDates ==
    {date \in Dates : date.day \in {1, 11, 21} \/ (date.month = 9 /\ date.day = 23)}

EngineDays == {getDayOfYear(date) : date \in EngineDates}

\* the places of the events calculateFactors is called for: latitude and
\* longitude in hundredths of a degree, one in each band of getGradientZone
EventPlaces == {<<3456, -9259>>, <<3100, -9000>>, <<4500, -10000>>, <<2700, -8200>>, <<5000, -10000>>}

\* the factor values classifyStorm is called with directly: 0, 0.25, ... 1
QuarterGrid == {0, 2500, 5000, 7500, 10000}

NoCall == [op |-> "none"]

InitEngine ==
    /\ thresholds = InitThresholds
    /\ weatherMeta = InitWeatherMeta
    /\ factors = <<>>
    /\ candidates = <<>>
    /\ result = NoResult
    /\ probe = NoProbe
    /\ pc = "idle"
    /\ engine \in {"decay", "lookup", "calculator"}
    /\ regions = CASE engine = "decay" -> InitRegions
                   [] engine = "lookup" -> REGIONAL_FUEL
                   [] OTHER -> Undefined
    /\ climateOffset = 0
    /\ call = NoCall
    /\ previousValues = <<>>
    /\ location = NoService
    /\ cache = NoService
    /\ pending = <<>>

\* the call op(args) has come back with outcome
Finish(op, args, outcome) ==
    /\ call' = [op |-> op, args |-> args, outcome |-> outcome]
    /\ pc' = "done"
    /\ UNCHANGED <<thresholds, weatherMeta, factors, candidates, result, engine>>
    /\ UNCHANGED serviceVars

\* the caller's note of a remembered predict call: another predict or forecast
\* call has been made since (between), setClimateOffset or addRegion has (not pure)
Later(op, args) ==
    IF probe = NoProbe \/ (op = "predict" /\ args = probe[1].args) THEN probe
    ELSE <<[probe[1] EXCEPT !.between = TRUE]>>

\* predict that also resets the scenario offset it has used
Predict_ResetsOffset(regionId, date) ==
    /\ pc = "idle" /\ engine = "decay"
    /\ Finish("predict", <<regionId, date>>, predict(regions, climateOffset, regionId, date))
    /\ climateOffset' = 0
    /\ probe' = Later("predict", <<regionId, date>>)
    /\ UNCHANGED regions

\* engine.predict(regionId, date): reads this.regions and this.climateOffset,
\* assigns no field
Predict(regionId, date) ==
    /\ pc = "idle" /\ engine = "decay"
    /\ Finish("predict", <<regionId, date>>, predict(regions, climateOffset, regionId, date))
    /\ probe' = Later("predict", <<regionId, date>>)
    /\ UNCHANGED <<regions, climateOffset>>

Forecast(regionId, startDate, days) ==
    /\ pc = "idle" /\ engine = "decay"
    /\ Finish("forecast", <<regionId, startDate, days>>,
              forecast(regions, climateOffset, regionId, startDate, days))
    /\ probe' = Later("forecast", <<regionId, startDate, days>>)
    /\ UNCHANGED <<regions, climateOffset>>

\* the remembered call is now followed by a setClimateOffset or an addRegion
Disturb == IF probe = NoProbe THEN probe ELSE <<[probe[1] EXCEPT !.pure = FALSE]>>

\* this.climateOffset = degreesCelsius
SetClimateOffset(degreesCelsius) ==
    /\ pc = "idle" /\ engine = "decay"
    /\ climateOffset' = degreesCelsius
    /\ Finish("setClimateOffset", <<degreesCelsius>>, Returned(Undefined))
    /\ probe' = Disturb
    /\ UNCHANGED regions

\* Put replacing the table by one that holds the new entry alone
Put_ReplacesTable(table, id, config) == [k \in {id} |-> config]

\* obj[id] = config on a table
Put(table, id, config) ==
    [k \in DOMAIN table \cup {id} |-> IF k = id THEN config ELSE table[k]]

\* this.regions[id] = config
AddRegion(id, config) ==
    /\ pc = "idle" /\ engine = "decay"
    /\ regions' = Put(regions, id, config)
    /\ Finish("addRegion", <<id, config>>, Returned(Undefined))
    /\ probe' = Disturb
    /\ UNCHANGED climateOffset

Infer(region, dayOfYear, offset) ==
    /\ pc = "idle" /\ engine = "lookup"
    /\ Finish("infer", <<region, dayOfYear, offset>>, Returned(infer(region, dayOfYear, offset)))
    /\ UNCHANGED <<regions, climateOffset, probe>>

InferYear(region, offset) ==
    /\ pc = "idle" /\ engine = "lookup"
    /\ Finish("inferYear", <<region, offset>>, Returned(inferYear(region, offset)))
    /\ UNCHANGED <<regions, climateOffset, probe>>

CompareRegions(dayOfYear, offset) ==
    /\ pc = "idle" /\ engine = "lookup"
    /\ Finish("compareRegions", <<dayOfYear, offset>>,
              Returned(compareRegions(dayOfYear, offset)))
    /\ UNCHANGED <<regions, climateOffset, probe>>

\* engine.classifyStorm(fuel, gradient, catalyst, solarAngle, lat) called with
\* factors of the caller's own
ClassifyStorm(fuel, gradient, catalyst, solarAngle) ==
    /\ pc = "idle" /\ engine = "lookup"
    /\ Finish("classifyStorm", <<fuel, gradient, catalyst, solarAngle>>,
              Returned(Lookup_classifyStorm(fuel, gradient, catalyst, solarAngle, 3400)))
    /\ UNCHANGED <<regions, climateOffset, probe>>

CalculateFactors(date, lat, lon) ==
    /\ pc = "idle" /\ engine = "calculator"
    /\ Finish("calculateFactors", <<date, lat, lon>>, Returned(calculateFactors(date, lat, lon)))
    /\ UNCHANGED <<regions, climateOffset, probe>>

\* the caller takes the outcome and goes on to its next call
Consume ==
    /\ pc = "done"
    /\ pc' = "idle"
    /\ call' = NoCall
    /\ UNCHANGED <<thresholds, weatherMeta, factors, candidates, result, probe,
                   engine, regions, climateOffset, previousValues, location, cache,
                   pending>>

NextEngine ==
    \/ \E regionId \in DecayKeys, date \in EngineDates : Predict(regionId, date)
    \/ \E regionId \in DecayKeys, date \in ForecastStarts, days \in 1..MaxForecastDays :
          Forecast(regionId, date, days)
    \/ \E o \in Offsets : SetClimateOffset(o)
    \/ \E id \in CustomIds : AddRegion(id, CustomConfig)
    \/ \E region \in LookupKeys, day \in EngineDays, o \in Offsets : Infer(region, day, o)
    \/ \E region \in LookupKeys, o \in Offsets : InferYear(region, o)
    \/ \E day \in EngineDays, o \in Offsets : CompareRegions(day, o)
    \/ \E f \in QuarterGrid, g \in QuarterGrid, c \in QuarterGrid, sa \in QuarterGrid :
          ClassifyStorm(f, g, c, sa)
    \/ \E date \in EngineDates, place \in EventPlaces :
          CalculateFactors(date, place[1], place[2])
    \/ Consume

SpecEngine == InitEngine /\ [][NextEngine]_vars

\* ------------------------------------ the discharge mode of a given ratio
\* A caller computes engine.getDischargeMode(engine.getInversionRatio(c, s))
\* for a catalyst c and a solar angle s of a grid of twentieths; factors holds
\* the two arguments in units of 1e-4.  On this grid a ratio is exactly 1.0 or
\* 1.2 or at least 0.008 away from both, so the rounding to 1e-4 decides no
\* comparison.
MaxTwentieth == 20

ModeGrid == {k * 500 : k \in 0..MaxTwentieth}

InitMode ==
    /\ thresholds = InitThresholds
    /\ weatherMeta = InitWeatherMeta
    /\ factors \in {[catalyst |-> c, solarAngle |-> sa] : c \in ModeGrid, sa \in ModeGrid}
    /\ candidates = <<>>
    /\ result = NoResult
    /\ probe = NoProbe
    /\ pc = "idle"
    /\ engine = "decay"
    /\ regions = InitRegions
    /\ climateOffset = 0
    /\ call = NoCall
    /\ previousValues = <<>>
    /\ location = NoService
    /\ cache = NoService
    /\ pending = <<>>

GetDischargeMode ==
    /\ pc = "idle"
    /\ LET inversionRatio == Decay_getInversionRatio(factors["catalyst"], factors["solarAngle"])
       IN  Finish("getDischargeMode", <<inversionRatio>>,
                  Returned(getDischargeMode(inversionRatio)))
    /\ UNCHANGED <<regions, climateOffset, probe>>

NextMode == GetDischargeMode

SpecMode == InitMode /\ [][NextMode]_vars

ModeDone == pc = "done" /\ call.op = "getDischargeMode"

EngineDone(op) == pc = "done" /\ call.op = op

\* the results of predict the last call handed back: the one of predict, the
\* entries of forecast's array
PredictResults ==
    IF EngineDone("predict") /\ ~call.outcome.threw THEN {call.outcome.value}
    ELSE IF EngineDone("forecast") /\ ~call.outcome.threw
    THEN {call.outcome.value[i] : i \in 1..Len(call.outcome.value)}
    ELSE {}

InversionTypes == {"BOMB_CYCLONE", "WINTER_STORM"}

ConvectiveTypes == {"TORNADO", "SUPERCELL", "DERECHO", "SEVERE_TSTORM", "THUNDERSTORM"}

\* C12: in every result of predict the predicted type is BOMB_CYCLONE or
\* WINTER_STORM exactly when the inversion ratio exceeds 1.2, which is exactly
\* when the discharge mode is HORIZONTAL; no convective type is reported in
\* inversion mode and no inversion type outside it.
C12_InversionTypesIffHorizontal ==
    \A r \in PredictResults :
        LET inverted == JsGt(r.factors.inversionRatio, 12000)
        IN  /\ (r.prediction.type \in InversionTypes) <=> inverted
            /\ (r.factors.dischargeMode = "HORIZONTAL") <=> inverted
            /\ inverted => r.prediction.type \notin ConvectiveTypes
            /\ ~inverted => r.prediction.type \notin InversionTypes

\* a predict in inversion mode on a day whose fuel and solar angle would
\* otherwise give a thunderstorm: BOMB_CYCLONE is reported
C12_Witness ==
    /\ EngineDone("predict") /\ ~call.outcome.threw
    /\ LET r == call.outcome.value
       IN  /\ JsGt(r.factors.inversionRatio, 12000)
           /\ JsGt(r.factors.fuel, 5000) /\ JsGt(r.factors.solarAngle, 5000)
           /\ r.prediction.type = "BOMB_CYCLONE"
           /\ r.factors.dischargeMode = "HORIZONTAL"

\* ------------------------------------------------------ unknown region keys
\* predict ended by throwing 'Unknown region: <key>'
ThrewUnknown(outcome, key) == outcome.threw /\ outcome.value = <<"Unknown region: ", key>>

\* infer returned the error result naming the key: no factors, indices, prediction
IsErrorResult(v, key) == DOMAIN v = {"error"} /\ v["error"] = <<"Unknown region: ", key>>

\* C13 (as claimed): a region key that is not in the region table yields the
\* not-found outcome (predict throws 'Unknown region', infer returns the error
\* result naming the key), and a key that is in the table never does.
C13_NotFoundIffNotInTable ==
    /\ EngineDone("predict")
       => ((call.args[1] \notin DOMAIN regions) <=> ThrewUnknown(call.outcome, call.args[1]))
    /\ EngineDone("infer")
       => ((call.args[1] \notin DOMAIN REGIONAL_FUEL)
           <=> IsErrorResult(call.outcome.value, call.args[1]))

\* --------------------------------------------------------- batch operations
BatchDone == EngineDone("forecast") \/ EngineDone("inferYear") \/ EngineDone("compareRegions")

\* C14 (as claimed): a batch operation (forecast, inferYear, compareRegions)
\* returns normally whatever region key it is given; a bad key is reported in
\* its result, not raised.
C14_BatchReturnsNormally == BatchDone => ~call.outcome.threw

\* ---------------------------------------------------------- the region table
\* the table the engine was constructed with
ConstructedTable ==
    CASE engine = "decay" -> InitRegions
      [] engine = "lookup" -> REGIONAL_FUEL
      [] OTHER -> Undefined

\* C15 (as claimed): after any sequence of engine operations the region table
\* is the one of construction: no key added, removed or overwritten.
C15_TableAsConstructed == regions = ConstructedTable

\* C15 (amended): the region table changes only in a call addRegion(id, config),
\* which sets key id to config (adding it, or overwriting the entry it had) and
\* leaves every other key with the entry it had; predict, forecast,
\* setClimateOffset, infer, inferYear and compareRegions leave the table as it is.
C15_OnlyAddRegionWrites ==
    [][regions' # regions
       => /\ call'.op = "addRegion"
          /\ DOMAIN regions' = DOMAIN regions \cup {call'.args[1]}
          /\ regions'[call'.args[1]] = call'.args[2]
          /\ \A k \in DOMAIN regions \ {call'.args[1]} : regions'[k] = regions[k]]_vars

\* addRegion has added a key and overwritten benton_ar; the other four keys
\* have the entries of construction
C15_Witness ==
    /\ EngineDone("addRegion")
    /\ DOMAIN regions = DOMAIN InitRegions \cup {"arctic_coast"}
    /\ regions["benton_ar"] = CustomConfig
    /\ \A k \in DOMAIN InitRegions \ {"benton_ar"} : regions[k] = InitRegions[k]

\* ------------------------------------- the same predict call made again
\* A caller of a distance-decay engine that remembers one predict call (its
\* arguments and its outcome) and goes on calling, over two dates and three keys.
SeqDates == {[month |-> 3, day |-> 21], [month |-> 9, day |-> 7]}

SeqKeys == {"benton_ar", "arctic_coast", "nowhere"}

InitEngineSeq == InitEngine /\ engine = "decay"

\* the caller keeps the arguments and the outcome of the predict that just returned
RememberCall ==
    /\ pc = "done" /\ call.op = "predict"
    /\ probe = NoProbe
    /\ probe' = <<[args |-> call.args, outcome |-> call.outcome,
                   between |-> FALSE, pure |-> TRUE]>>
    /\ UNCHANGED <<thresholds, weatherMeta, factors, candidates, result, pc>>
    /\ UNCHANGED engineVars
    /\ UNCHANGED serviceVars

NextEngineSeq ==
    \/ \E regionId \in SeqKeys, date \in SeqDates : Predict(regionId, date)
    \/ \E regionId \in SeqKeys, date \in SeqDates, days \in 1..MaxForecastDays :
          Forecast(regionId, date, days)
    \/ \E o \in Offsets : SetClimateOffset(o)
    \/ \E id \in CustomIds : AddRegion(id, CustomConfig)
    \/ RememberCall
    \/ Consume

SpecEngineSeq == InitEngineSeq /\ [][NextEngineSeq]_vars

\* the remembered predict call has just been made again
Repeated == EngineDone("predict") /\ probe # NoProbe /\ call.args = probe[1].args

SameOutcome(a, b) == a.threw = b.threw /\ a.value = b.value

\* C16 (as claimed): predict(region, date) gives the same result whatever
\* operations (predict, forecast, setClimateOffset, addRegion) were performed on
\* the engine before it.
C16_SameCallSameResult == Repeated => SameOutcome(call.outcome, probe[1].outcome)

\* C16 (amended): predict(region, date) gives the same result whatever predict
\* and forecast calls were performed before it, as long as no setClimateOffset
\* and no addRegion came in between: the result is determined by the arguments
\* together with this.climateOffset and this.regions, which predict and forecast
\* only read.
C16_SameCallSameResultUnlessSet ==
    (Repeated /\ probe[1].pure) => SameOutcome(call.outcome, probe[1].outcome)

\* with a warming offset set, a predict is repeated after other predict or
\* forecast calls and returns the remembered result
C16_Witness ==
    /\ Repeated /\ probe[1].pure /\ probe[1].between
    /\ climateOffset > 0
    /\ ~call.outcome.threw
    /\ SameOutcome(call.outcome, probe[1].outcome)

\* ------------------------------------------- the climate offset's effect
\* the factors the last call computed, and the factors the same call computes
\* under the offset o: predict after setClimateOffset(o), infer with argument o
FactorsNow ==
    IF EngineDone("predict") THEN call.outcome.value.factors
    ELSE [fuel |-> call.outcome.value.factors.fuel.value,
          gradient |-> call.outcome.value.factors.gradient.value]

FactorsUnder(o) ==
    IF EngineDone("predict")
    THEN predict(regions, o, call.args[1], call.args[2]).value.factors
    ELSE LET f == infer(call.args[1], call.args[2], o).factors
         IN  [fuel |-> f.fuel.value, gradient |-> f.gradient.value]

OffsetNow == IF EngineDone("predict") THEN climateOffset ELSE call.args[3]

\* a predict or an infer for a region of the table has returned its factors
FactorsDone ==
    \/ EngineDone("predict") /\ call.args[1] \in DOMAIN regions
    \/ EngineDone("infer") /\ call.args[1] \in DOMAIN REGIONAL_FUEL

\* C17 (as claimed): for a fixed region and day and offsets >= 0, a larger
\* climateOffset gives a strictly larger fuel and a smaller gradient, in the
\* scalar-lookup engine and in the distance-decay engine.
C17_StrictlyMonotone ==
    FactorsDone =>
        \A o \in Offsets :
            o > OffsetNow
            => /\ FactorsUnder(o).fuel > FactorsNow.fuel
               /\ FactorsUnder(o).gradient < FactorsNow.gradient

\* C17 (amended): for a fixed region and day and offsets >= 0, a larger
\* climateOffset gives a fuel that is not smaller, and strictly larger unless it
\* is capped at 1; in the scalar-lookup engine it gives a gradient that is not
\* larger, and strictly smaller while the gradient is positive; in the
\* distance-decay engine the gradient does not depend on the offset.
C17_MonotoneUpToCap ==
    FactorsDone =>
        \A o \in Offsets :
            o > OffsetNow
            => /\ FactorsUnder(o).fuel >= FactorsNow.fuel
               /\ FactorsUnder(o).fuel > FactorsNow.fuel \/ FactorsUnder(o).fuel = E4
               /\ EngineDone("infer")
                  => /\ FactorsUnder(o).gradient <= FactorsNow.gradient
                     /\ FactorsUnder(o).gradient < FactorsNow.gradient
                        \/ FactorsNow.gradient = 0
               /\ EngineDone("predict")
                  => FactorsUnder(o).gradient = FactorsNow.gradient

\* infer for midwest without offset: one degree more gives more fuel, below the
\* cap, and less gradient
C17_Witness ==
    /\ EngineDone("infer") /\ call.args[1] = "midwest" /\ call.args[3] = 0
    /\ FactorsNow.fuel < FactorsUnder(E4).fuel /\ FactorsUnder(E4).fuel < E4
    /\ FactorsUnder(E4).gradient < FactorsNow.gradient

\* ---------------------------------------------------------------- C18
\* the day and the catalyst of every result the last call handed back
CatalystReadings ==
    {[dayOfYear |-> r.dayOfYear, catalyst |-> r.factors.catalyst] : r \in PredictResults}
    \cup (IF EngineDone("infer") /\ "factors" \in DOMAIN call.outcome.value
          THEN {[dayOfYear |-> call.outcome.value.dayOfYear,
                 catalyst |-> call.outcome.value.factors.catalyst.value]}
          ELSE {})
    \cup (IF EngineDone("calculateFactors")
          THEN {[dayOfYear |-> call.outcome.value.dayOfYear,
                 catalyst |-> call.outcome.value.catalyst]}
          ELSE {})

\* C18 (as claimed): getCatalyst(day) lies in [0, 1]; on days 80 and 266 it is 1
\* within 0.01 and on days 172 and 355 it is 0 within 0.01, in both engines.
C18_CatalystPeaksAndTroughs ==
    \A r \in CatalystReadings :
        /\ 0 <= r.catalyst /\ r.catalyst <= E4
        /\ r.dayOfYear \in {80, 266} => r.catalyst >= E4 - 100
        /\ r.dayOfYear \in {172, 355} => r.catalyst <= 100

\* ---------------------------------------------------------------- C19
\* the four factors and the three indices of every result the last call
\* handed back
Indexed(fuel, gradient, catalyst, solarAngle, indices) ==
    [fuel |-> fuel, gradient |-> gradient, catalyst |-> catalyst, solarAngle |-> solarAngle,
     probability |-> indices.probability, volatility |-> indices.volatility,
     danger |-> indices.danger]

IndexResults ==
    {Indexed(r.factors.fuel, r.factors.gradient, r.factors.catalyst, r.factors.solarAngle,
             r.indices) : r \in PredictResults}
    \cup (IF EngineDone("infer") /\ "factors" \in DOMAIN call.outcome.value
          THEN LET r == call.outcome.value
               IN  {Indexed(r.factors.fuel.value, r.factors.gradient.value,
                            r.factors.catalyst.value, r.factors.solarAngle.value, r.indices)}
          ELSE {})
    \cup (IF EngineDone("classifyStorm")
          THEN LET r == call.outcome.value
               IN  {Indexed(r.factors.fuel, r.factors.gradient, r.factors.catalyst,
                            r.factors.solarAngle, r.indices)}
          ELSE {})
    \cup (IF EngineDone("calculateFactors")
          THEN LET r == call.outcome.value
               IN  {Indexed(r.fuel, r.gradient, r.catalyst, r.solarAngle, r)}
          ELSE {})

\* the rounding of the products: the danger index is a chain of five products
\* and the product of the two indices one of five, each within half a unit
ProductTolerance == 3

InUnit4(v) == v # NaN /\ 0 <= v /\ v <= E4

\* C19: in every result of infer, predict and calculateFactors (and of
\* classifyStorm called with factors directly) the danger index is the product
\* of the probability and the volatility, up to the rounding of the products
\* (and not a number exactly when that product is not a number); the danger is
\* 0 whenever the catalyst is 0, whatever the fuel; and the danger exceeds
\* neither the probability nor the volatility when the four factors are in
\* [0, 1].
C19_DangerIsProbabilityTimesVolatility ==
    \A r \in IndexResults :
        LET product == JsMul(r.probability, r.volatility)
        IN  /\ (r.danger = NaN) <=> (product = NaN)
            /\ r.danger # NaN => Abs(r.danger - product) <= ProductTolerance
            /\ (r.catalyst = 0 /\ r.fuel # NaN /\ r.gradient # NaN /\ r.solarAngle # NaN)
               => r.danger = 0
            /\ (InUnit4(r.fuel) /\ InUnit4(r.gradient) /\ InUnit4(r.catalyst)
                /\ InUnit4(r.solarAngle))
               => r.danger <= r.probability /\ r.danger <= r.volatility

\* calculateFactors for Benton on the spring equinox: a positive danger, the
\* product of the two indices and below both
C19_Witness ==
    /\ EngineDone("calculateFactors")
    /\ call.args = <<[month |-> 3, day |-> 21], 3456, -9259>>
    /\ \E r \in IndexResults :
          /\ r.danger > 0
          /\ Abs(r.danger - JsMul(r.probability, r.volatility)) <= ProductTolerance
          /\ r.danger < r.probability /\ r.danger < r.volatility

\* ------------------- NOAAWeatherService / DSOWeatherService: the values
\* A JavaScript value of the service: null, undefined, NaN, a number (in units
\* of 1e-4), a string or an object (a record with t = "object").
JsNull == [t |-> "null"]

JsUndefined == [t |-> "undefined"]

JsNaN == [t |-> "NaN"]

JsNum(n) == [t |-> "number", v |-> n]

JsStr(str) == [t |-> "string", v |-> str]

\* obj?.key
Get(obj, key) ==
    IF obj.t # "object" \/ key \notin DOMAIN obj THEN JsUndefined ELSE obj[key]

\* x === null || x === undefined
IsNullish(x) == x.t \in {"null", "undefined"}

\* the number an operand of arithmetic or of a comparison is converted to
ToNumber(x) ==
    CASE x.t = "null" -> JsNum(0)
      [] x.t = "number" -> x
      [] OTHER -> JsNaN

\* a binary arithmetic operator: NaN when an operand is
Arith(F(_, _), a, b) ==
    LET x == ToNumber(a)
        y == ToNumber(b)
    IN  IF x.t = "NaN" \/ y.t = "NaN" THEN JsNaN ELSE JsNum(F(x.v, y.v))

\* a > c and a < c for a number c: false when a converts to NaN
Greater(a, c) == ToNumber(a).t = "number" /\ ToNumber(a).v > c

Less(a, c) == ToNumber(a).t = "number" /\ ToNumber(a).v < c

\* the condition of x ? a : b and of x || b
IsTruthy(x) ==
    CASE x.t = "number" -> x.v # 0
      [] x.t = "string" -> x.v # ""
      [] x.t = "object" -> TRUE
      [] OTHER -> FALSE

isNaN(x) == ToNumber(x).t = "NaN"

\* x * num / den for number literals
Scale(x, num, den) == IF isNaN(x) THEN JsNaN ELSE JsNum(RDiv(ToNumber(x).v * num, den))

MathAbs(x) == IF isNaN(x) THEN JsNaN ELSE JsNum(Abs(ToNumber(x).v))

\* the product of two numbers that may be well above 1: each is rounded to
\* two decimals first
TimesWide(a, b) == RDiv(a, 100) * RDiv(b, 100)

\* 10^(4 - decimals): the step of a number with that many decimals
FixedStep(decimals) ==
    CASE decimals = 0 -> 10000
      [] decimals = 1 -> 1000
      [] decimals = 2 -> 100
      [] OTHER -> 10

\* n.toFixed(decimals): the decimal numeral of n rounded to that many decimals,
\* kept as the number it denotes
toFixed(n, decimals) ==
    LET step == FixedStep(decimals)
    IN  IF n < 0 THEN -(RDiv(-n, step) * step) ELSE RDiv(n, step) * step

\* x.toFixed(decimals) where x may be no number: "NaN" for NaN (null and
\* undefined have no toFixed: the callers throw)
toFixedOf(x, decimals) == IF x.t = "number" THEN toFixed(x.v, decimals) ELSE "NaN"

TypeError == Thrown("TypeError: Cannot read properties of undefined (reading 'toFixed')")

\* the helper of getWeatherVariables: the value or "NO DATA"
realValue(val, decimals) ==
    IF IsNullish(val) \/ isNaN(val) THEN [value |-> "NO DATA", isReal |-> FALSE]
    ELSE [value |-> IF val.t = "number" THEN toFixed(val.v, decimals) ELSE val.v,
          isReal |-> TRUE, raw |-> val]

\* ------------------------------------------------ the service's helpers
\* calcTrend(key, current): the arrow, and previousValues after the call
calcTrend(previous, key, current) ==
    IF IsNullish(current) THEN [trend |-> "-", previousValues |-> previous]
    ELSE LET delta == Arith(LAMBDA x, y : x - y, current, previous[key])
         IN  [trend |-> IF key \notin DOMAIN previous THEN "->"
                        ELSE IF Less(MathAbs(delta), 100) THEN "->"
                        ELSE IF Greater(delta, 0) THEN "up" ELSE "down",
              previousValues |-> Put(previous, key, current)]

dirs == <<"N", "NNE", "NE", "ENE", "E", "ESE", "SE", "SSE",
          "S", "SSW", "SW", "WSW", "W", "WNW", "NW", "NNW">>

degreesToCardinal(deg) ==
    IF IsNullish(deg) THEN JsStr("N/A")
    ELSE IF deg.t # "number" THEN JsUndefined
    ELSE JsStr(dirs[(RDiv(deg.v, 225000) % 16) + 1])

getHumidityModifier(dewpoint, rh) ==
    IF dewpoint.t = "null" \/ rh.t = "null" THEN <<"NO DATA - Cannot assess">>
    ELSE IF Greater(dewpoint, 180000) /\ Greater(rh, 700000)
    THEN <<"High moisture - E_fuel enhanced 20-30%">>
    ELSE IF Greater(dewpoint, 120000) /\ Greater(rh, 500000)
    THEN <<"Moderate moisture - baseline E_fuel">>
    ELSE IF Less(dewpoint, 80000) THEN <<"Low moisture - E_fuel reduced 15-25%">>
    ELSE <<"Transitional - marginal fuel availability">>

\* the template strings are kept as their text and the value put into it
\* (as are, with no value, the plain strings of the other dsoModifier helpers)
getCAPEModifier(cape, cin) ==
    IF cape.t = "null" THEN <<"NO DATA - Cannot assess instability">>
    ELSE IF Greater(cape, 25000000)
    THEN IF cin.t # "null" /\ Less(cin, -500000)
         THEN <<"Extreme CAPE but capped - explosive if cap breaks", cape>>
         ELSE <<"Extreme CAPE - significant severe potential", cape>>
    ELSE IF Greater(cape, 15000000) THEN <<"Strong CAPE - organized storms likely", cape>>
    ELSE IF Greater(cape, 5000000) THEN <<"Moderate CAPE - convection possible", cape>>
    ELSE <<"Weak CAPE - limited storm potential", cape>>

\* every branch below the first calls shear0_6km.toFixed
getShearModifier(shear0_6km, shear0_1km) ==
    IF shear0_6km.t = "null" THEN Returned(<<"NO DATA - Cannot assess shear">>)
    ELSE IF shear0_6km.t = "undefined" THEN TypeError
    ELSE Returned(<<IF Greater(shear0_6km, 400000) THEN "Extreme shear - tornado environment"
                    ELSE IF Greater(shear0_6km, 250000)
                    THEN "Strong shear - supercell potential"
                    ELSE IF Greater(shear0_6km, 150000)
                    THEN "Moderate shear - organized storms"
                    ELSE "Weak shear - pulse storms only",
                    toFixedOf(shear0_6km, 0)>>)

getFrontApproach(windDir, pressureTrend) ==
    IF windDir.t = "null" \/ pressureTrend.t = "null" THEN "NO DATA"
    ELSE IF Less(pressureTrend, -20000)
    THEN IF Greater(windDir, 1800000) /\ Less(windDir, 2700000)
         THEN "SW approach - classic warm sector"
         ELSE IF Greater(windDir, 2700000) \/ Less(windDir, 450000)
         THEN "NW approach - cold front passage"
         ELSE "Unusual approach vector"
    ELSE IF Greater(pressureTrend, 20000) THEN "High pressure building - stable"
    ELSE "Weak or no frontal boundary"

getFrontAngleModifier(frontAngle, pressureTrend) ==
    IF frontAngle.t = "null" \/ pressureTrend.t = "null" THEN <<"NO DATA">>
    ELSE IF Less(pressureTrend, -30000) /\ Less(frontAngle, 300000)
    THEN <<"Near-perpendicular approach - maximum gradient forcing">>
    ELSE IF Less(pressureTrend, -20000) THEN <<"Active frontal passage - enhanced dynamics">>
    ELSE <<"Minimal frontal modification">>

\* every branch below the first calls lapseRate.toFixed
getLapseRateModifier(lapseRate) ==
    IF lapseRate.t = "null" THEN Returned(<<"NO DATA - Cannot assess stability">>)
    ELSE IF lapseRate.t = "undefined" THEN TypeError
    ELSE Returned(<<IF Greater(lapseRate, 98000) THEN "Absolutely unstable - explosive convection"
                    ELSE IF Greater(lapseRate, 70000)
                    THEN "Steep lapse rate - strong instability"
                    ELSE IF Greater(lapseRate, 55000)
                    THEN "Near moist-adiabatic - conditionally unstable"
                    ELSE IF Greater(lapseRate, 40000) THEN "Stable - convection inhibited"
                    ELSE "Strong inversion - capped atmosphere",
                    toFixedOf(lapseRate, 1)>>)

\* eFuel is a number or NaN below the first test and gulfSST a number below
\* the second
getEFuelModifier(eFuel, gulfSST) ==
    IF eFuel.t = "null" THEN <<"NO DATA - Cannot calculate E_fuel">>
    ELSE IF gulfSST.t = "null" THEN <<"Gulf SST unavailable - partial calculation">>
    ELSE <<IF Greater(eFuel, 8000) THEN "High fuel - energy-rich environment"
           ELSE IF Greater(eFuel, 5000) THEN "Moderate fuel - adequate energy"
           ELSE "Low fuel - limited potential",
           toFixedOf(Scale(eFuel, 100, 1), 0),
           toFixedOf(gulfSST, 1)>>

getDaysToEquinox(doy) ==
    IF doy < 80 THEN 80 - doy
    ELSE IF doy < 266 THEN 266 - doy
    ELSE (365 - doy) + 80

getCatalystPhase(doy) ==
    IF doy >= 80 /\ doy < 172 THEN "Post-spring equinox (declining)"
    ELSE IF doy >= 172 /\ doy < 266 THEN "Summer solstice minimum"
    ELSE IF doy >= 266 /\ doy < 355 THEN "Post-fall equinox (declining)"
    ELSE "Winter solstice minimum"

calculateSolarAngle(lat, dayOfYear) == Lookup_getSolarAngle(lat, dayOfYear)

\* ------------------------------------------------- the service's fetches
GULF_BUOYS == <<"42001", "42002", "42019", "42020", "42035", "42040", "42067">>

RECURSIVE SumSST(_, _)
SumSST(readings, n) ==
    IF n = 0 THEN 0 ELSE SumSST(readings, n - 1) + readings[n].seaSurfaceTemp.v

IsValidReading(r) == r.success /\ r.seaSurfaceTemp.t # "null"

IsPriorityBuoy(r) == r.buoyId \in {"42040", "42067", "42001"}

\* fetchGulfSST over what fetchBuoyData gave for each buoy
fetchGulfSST(results) ==
    LET validReadings == SelectSeq(results, IsValidReading)
        priorityBuoys == SelectSeq(validReadings, IsPriorityBuoy)
    IN  IF Len(validReadings) = 0
        THEN [t |-> "object", success |-> FALSE,
              error |-> JsStr("No valid SST readings from any Gulf buoy"),
              attemptedBuoys |-> GULF_BUOYS]
        ELSE [t |-> "object", success |-> TRUE,
              primarySST |-> IF Len(priorityBuoys) > 0 THEN priorityBuoys[1].seaSurfaceTemp
                             ELSE validReadings[1].seaSurfaceTemp,
              averageSST |-> JsNum(RDiv(SumSST(validReadings, Len(validReadings)),
                                        Len(validReadings))),
              buoyCount |-> Len(validReadings),
              readings |-> [i \in 1..Len(validReadings) |->
                               [buoyId |-> validReadings[i].buoyId,
                                sst |-> validReadings[i].seaSurfaceTemp]]]

\* the catch branch of a fetch
FetchFailed(message) == [t |-> "object", success |-> FALSE, error |-> JsStr(message)]

\* getAllWeatherData: the three fetches, the buoys through fetchGulfSST
getAllWeatherData(surface, buoys, sounding) ==
    [surface |-> surface, gulfSST |-> fetchGulfSST(buoys), sounding |-> sounding]

\* --------------------------------------------------- getWeatherVariables
\* The object literals are evaluated in the order written: trend before
\* dsoModifier, humidity first and solarAngle last.  The outcome carries
\* previousValues as the calls of calcTrend made before the return or the throw
\* left it.
ServiceOutcome(outcome, previous) ==
    [threw |-> outcome.threw, value |-> outcome.value, previousValues |-> previous]

\* getShearModifier of DSOWeatherService: undefined is tested with null
DSO_getShearModifier(shear0_6km, shear0_1km) ==
    IF IsNullish(shear0_6km) THEN Returned(<<"NO DATA - Cannot assess shear">>)
    ELSE getShearModifier(shear0_6km, shear0_1km)

\* this.ARKANSAS of NOAAWeatherService, the latitude in hundredths of a degree
ARKANSAS == [name |-> "Arkansas", lat |-> 3475, lon |-> -9229]

\* the record of the two surface sources with the third source under the
\* service's name for it: sounding, or atmospheric in DSOWeatherService
UpperAirKey(service, two, third) ==
    IF service = "DSOWeatherService"
    THEN [surface |-> two.surface, gulfBuoys |-> two.gulfBuoys, atmospheric |-> third]
    ELSE [surface |-> two.surface, gulfBuoys |-> two.gulfBuoys, sounding |-> third]

\* getWeatherVariables of both services: NOAAWeatherService reads
\* allData.sounding and this.ARKANSAS, DSOWeatherService allData.atmospheric
\* and this.location
weatherVariables(service, place, previous, allData, dayOfYear) ==
    LET surfaceData == IF allData.surface.success THEN allData.surface.data ELSE JsNull
        upperAir == IF service = "DSOWeatherService" THEN allData.atmospheric
                    ELSE allData.sounding
        soundingData == IF upperAir.success THEN upperAir ELSE JsNull
        gulfData == allData.gulfSST
        dewpoint == Get(Get(surfaceData, "dewpoint"), "value")
        rh == Get(Get(surfaceData, "relativeHumidity"), "value")
        cape == Get(Get(soundingData, "indices"), "cape")
        cin == Get(Get(soundingData, "indices"), "cin")
        temp == Get(Get(surfaceData, "temperature"), "value")
        windSpd == Get(Get(surfaceData, "windSpeed"), "value")
        heatTransfer ==
            IF ~IsNullish(temp) /\ ~IsNullish(windSpd)
            THEN LET windMs == Scale(windSpd, 10, 36)
                     film == Arith(LAMBDA x, y : x + y, JsNum(57000), Scale(windMs, 38, 10))
                     excess == MathAbs(Arith(LAMBDA x, y : x - y, temp, JsNum(150000)))
                 IN  Arith(TimesWide, film, excess)
            ELSE JsNull
        windDir == Get(Get(surfaceData, "windDirection"), "value")
        windGust == Get(Get(surfaceData, "windGust"), "value")
        shear0_6km == Get(Get(soundingData, "windShear"), "bulk0_6km")
        shear0_1km == Get(Get(soundingData, "windShear"), "bulk0_1km")
        shearInterpretation == Get(Get(soundingData, "windShear"), "interpretation")
        pressure == Get(Get(surfaceData, "barometricPressure"), "value")
        pressureMb == IF IsTruthy(pressure) THEN Scale(pressure, 1, 100) ELSE JsNull
        frontAngle ==
            IF windDir.t # "null"
            THEN MathAbs(Arith(LAMBDA x, y : ((x + 2700000) % 3600000) - y,
                               windDir, JsNum(1800000)))
            ELSE JsNull
        pressureTrend ==
            IF IsTruthy(pressureMb)
            THEN Arith(LAMBDA x, y : x - y, pressureMb, JsNum(10132500))
            ELSE JsNull
        lapseData == Get(soundingData, "lapseRate")
        lapseRate == Get(lapseData, "value")
        stability == Get(lapseData, "stability")
        gulfSST == IF gulfData.success THEN gulfData.primarySST ELSE JsNull
        avgGulfSST == IF gulfData.success THEN gulfData.averageSST ELSE JsNull
        eFuel ==
            IF gulfSST.t # "null" /\ rh.t # "null"
            THEN LET sstFactor == Scale(Arith(LAMBDA x, y : x - y, gulfSST, JsNum(200000)), 1, 10)
                     moistureFactor == Scale(rh, 1, 100)
                     sum == Arith(LAMBDA x, y : x + y,
                                  Scale(sstFactor, 7, 10), Scale(moistureFactor, 3, 10))
                 IN  IF isNaN(sum) THEN JsNaN
                     ELSE JsNum(IF sum.v > E4 THEN E4 ELSE IF sum.v < 0 THEN 0 ELSE sum.v)
            ELSE JsNull
        gradient ==
            IF pressureMb.t # "null" /\ windSpd.t # "null"
            THEN LET pressureDeparture ==
                         Scale(MathAbs(Arith(LAMBDA x, y : x - y, pressureMb, JsNum(10132500))),
                               1, 20)
                     dynamicFactor == Scale(windSpd, 1, 50)
                     sum == Arith(LAMBDA x, y : x + y, pressureDeparture, dynamicFactor)
                 IN  IF isNaN(sum) THEN JsNaN ELSE JsNum(IF sum.v > E4 THEN E4 ELSE sum.v)
            ELSE JsNull
        catalyst == JsNum(Lookup_getCatalyst(dayOfYear))
        solarAngle == JsNum(calculateSolarAngle(place.lat, dayOfYear))
        humidityTrend == calcTrend(previous, "humidity_rh", rh)
        capeTrend == calcTrend(humidityTrend.previousValues, "cape", cape)
        windTrend == calcTrend(capeTrend.previousValues, "wind", windSpd)
        shearModifier == IF service = "DSOWeatherService"
                         THEN DSO_getShearModifier(shear0_6km, shear0_1km)
                         ELSE getShearModifier(shear0_6km, shear0_1km)
        tempTrend == calcTrend(windTrend.previousValues, "temp", temp)
        lapseRateModifier == getLapseRateModifier(lapseRate)
        efuelTrend == calcTrend(tempTrend.previousValues, "efuel", eFuel)
        gradientTrend == calcTrend(efuelTrend.previousValues, "gradient", gradient)
        catalystTrend == calcTrend(gradientTrend.previousValues, "catalyst", catalyst)
        solarTrend == calcTrend(catalystTrend.previousValues, "solar", solarAngle)
        variables ==
            [humidity |->
                [symbol |-> "H",
                 dewpoint |-> realValue(dewpoint, 1),
                 relativeHumidity |-> realValue(rh, 0),
                 dataSource |-> IF allData.surface.success THEN "NWS KLIT" ELSE "UNAVAILABLE",
                 timestamp |-> IF IsTruthy(Get(surfaceData, "timestamp"))
                               THEN Get(surfaceData, "timestamp").v ELSE "NO DATA",
                 trend |-> humidityTrend.trend,
                 dsoModifier |-> getHumidityModifier(dewpoint, rh)],
             energyDispersal |->
                [symbol |-> "D",
                 cape |-> realValue(cape, 0),
                 cin |-> realValue(cin, 0),
                 heatTransferRate |-> realValue(heatTransfer, 1),
                 liftedIndex |-> realValue(Get(Get(soundingData, "indices"), "liftedIndex"), 1),
                 dataSource |-> IF ~upperAir.success THEN "UNAVAILABLE"
                                ELSE IF service = "DSOWeatherService" THEN "Open-Meteo"
                                ELSE "KLZK Sounding",
                 trend |-> capeTrend.trend,
                 dsoModifier |-> getCAPEModifier(cape, cin)],
             windPattern |->
                [symbol |-> "W",
                 speed |-> realValue(windSpd, 1),
                 speedMph |-> realValue(IF IsTruthy(windSpd) THEN Scale(windSpd, 621, 1000)
                                        ELSE JsNull, 1),
                 direction |-> realValue(windDir, 0),
                 directionCardinal |-> IF windDir.t # "null" THEN degreesToCardinal(windDir)
                                       ELSE JsStr("NO DATA"),
                 gust |-> realValue(windGust, 1),
                 gustMph |-> realValue(IF IsTruthy(windGust) THEN Scale(windGust, 621, 1000)
                                       ELSE JsNull, 1),
                 shear0_6km |-> realValue(shear0_6km, 1),
                 shear0_1km |-> realValue(shear0_1km, 1),
                 shearInterpretation |-> IF IsTruthy(shearInterpretation)
                                         THEN shearInterpretation.v ELSE "NO DATA",
                 trend |-> windTrend.trend,
                 dsoModifier |-> shearModifier.value],
             angleOfAttack |->
                [symbol |-> "A",
                 frontAngle |-> realValue(frontAngle, 0),
                 pressure |-> realValue(pressureMb, 1),
                 pressureTrend |-> IF pressureTrend.t # "null"
                                   THEN IF Greater(pressureTrend, 0) THEN "Rising"
                                        ELSE IF Less(pressureTrend, 0) THEN "Falling"
                                        ELSE "Steady"
                                   ELSE "NO DATA",
                 approachDirection |-> getFrontApproach(windDir, pressureTrend),
                 dataSource |-> IF allData.surface.success THEN "NWS KLIT" ELSE "UNAVAILABLE",
                 trend |-> IF Greater(pressureTrend, 5000) THEN "up"
                           ELSE IF Less(pressureTrend, -5000) THEN "down" ELSE "->",
                 dsoModifier |-> getFrontAngleModifier(frontAngle, pressureTrend)],
             thermalVariance |->
                [symbol |-> "T",
                 surfaceTemp |-> realValue(temp, 1),
                 surfaceTempF |-> realValue(IF temp.t # "null"
                                            THEN Arith(LAMBDA x, y : x + y,
                                                       Scale(temp, 9, 5), JsNum(320000))
                                            ELSE JsNull, 1),
                 lapseRate |-> realValue(lapseRate, 2),
                 stability |-> IF IsTruthy(stability) THEN stability.v ELSE "NO DATA",
                 inversionPresent |-> IF lapseRate.t # "null"
                                      THEN IF Less(lapseRate, 40000) THEN "YES" ELSE "NO"
                                      ELSE "NO DATA",
                 upperTemp |-> realValue(Get(lapseData, "upperTemp"), 1),
                 upperHeight |-> realValue(Get(lapseData, "upperHeight"), 0),
                 dataSource |-> IF ~upperAir.success THEN "UNAVAILABLE"
                                ELSE IF service = "DSOWeatherService" THEN "Open-Meteo"
                                ELSE "KLZK Sounding",
                 trend |-> tempTrend.trend,
                 dsoModifier |-> lapseRateModifier.value],
             eFuel |->
                [symbol |-> "E_fuel",
                 value |-> realValue(eFuel, 3),
                 gulfSST |-> realValue(gulfSST, 1),
                 gulfSSTAvg |-> realValue(avgGulfSST, 1),
                 buoyCount |-> IF gulfData.success THEN gulfData.buoyCount ELSE 0,
                 buoyReadings |-> IF gulfData.success THEN gulfData.readings ELSE <<>>,
                 moistureContribution |-> realValue(IF IsTruthy(rh) THEN Scale(rh, 3, 1000)
                                                    ELSE JsNull, 3),
                 dataSource |-> IF gulfData.success THEN "NDBC Buoys" ELSE "UNAVAILABLE",
                 trend |-> efuelTrend.trend,
                 dsoModifier |-> getEFuelModifier(eFuel, gulfSST)],
             gradient |->
                [symbol |-> "dE/dphi",
                 value |-> realValue(gradient, 3),
                 pressureMb |-> realValue(pressureMb, 1),
                 pressureDeparture |->
                     realValue(IF IsTruthy(pressureMb)
                               THEN MathAbs(Arith(LAMBDA x, y : x - y, pressureMb,
                                                  JsNum(10132500)))
                               ELSE JsNull, 1),
                 dataSource |-> IF allData.surface.success THEN "NWS KLIT" ELSE "UNAVAILABLE",
                 trend |-> gradientTrend.trend,
                 dsoModifier |-> IF gradient.t # "null"
                                 THEN <<"Collision intensity", toFixedOf(Scale(gradient, 100, 1), 0)>>
                                 ELSE <<"NO DATA">>],
             catalyst |->
                [symbol |-> "dtheta/dt",
                 value |-> realValue(catalyst, 3),
                 daysToEquinox |-> getDaysToEquinox(dayOfYear),
                 phase |-> getCatalystPhase(dayOfYear),
                 dataSource |-> "Calculated (Orbital Mechanics)",
                 trend |-> catalystTrend.trend,
                 dsoModifier |-> <<"Rotation driver", toFixedOf(Scale(catalyst, 100, 1), 0)>>],
             solarAngle |->
                [symbol |-> "sin(alpha)",
                 value |-> realValue(solarAngle, 3),
                 latitude |-> place.lat,
                 dataSource |-> "Calculated (Solar Geometry)",
                 trend |-> solarTrend.trend,
                 dsoModifier |-> <<"Solar punch", toFixedOf(Scale(solarAngle, 100, 1), 0)>>],
             metadata |->
                [location |-> place.name,
                 dayOfYear |-> dayOfYear,
                 dataSources |-> UpperAirKey(service,
                                             [surface |-> allData.surface.success,
                                              gulfBuoys |-> allData.gulfSST.success],
                                             upperAir.success),
                 errors |-> UpperAirKey(service,
                                        [surface |-> IF IsTruthy(Get(allData.surface, "error"))
                                                     THEN allData.surface.error ELSE JsNull,
                                         gulfBuoys |-> IF IsTruthy(Get(allData.gulfSST, "error"))
                                                       THEN allData.gulfSST.error ELSE JsNull],
                                        IF IsTruthy(Get(upperAir, "error"))
                                        THEN upperAir.error ELSE JsNull)]]
    IN  IF shearModifier.threw THEN ServiceOutcome(shearModifier, windTrend.previousValues)
        ELSE IF lapseRateModifier.threw
        THEN ServiceOutcome(lapseRateModifier, tempTrend.previousValues)
        ELSE ServiceOutcome(Returned(variables), solarTrend.previousValues)

\* NOAAWeatherService.getWeatherVariables
getWeatherVariables(previous, allData, dayOfYear) ==
    weatherVariables("NOAAWeatherService", ARKANSAS, previous, allData, dayOfYear)

\* DSOWeatherService.getWeatherVariables at this.location
DSO_getWeatherVariables(place, previous, allData, dayOfYear) ==
    weatherVariables("DSOWeatherService", place, previous, allData, dayOfYear)

\* ------------------------------------------------ the fetch operations
\* How a fetch ends for its caller: fetch rejects (no network), the response
\* is not ok (a status), the body cannot be read as asked (json() rejects, no
\* properties, no PRE block, too few lines), or the body is read.
NetEnds == {"reject", "status", "body", "ok"}

\* fetchSurfaceObservations on what the network gives: every failure is caught
\* and returned
fetchSurfaceObservations(net) ==
    CASE net.ends = "ok" ->
           Returned([t |-> "object", success |-> TRUE, data |-> net.properties,
                     station |-> "KLIT"])
      [] net.ends = "status" -> Returned(FetchFailed("NWS API returned 503"))
      [] net.ends = "body" ->
           Returned(FetchFailed("Cannot read properties of undefined (reading 'timestamp')"))
      [] OTHER -> Returned(FetchFailed("Failed to fetch"))

\* getValue('WTMP') of parseNDBCData: the number of the column, null for a
\* missing column, for MM and for the fill values 999 and 9999
getValue(column) ==
    IF column.t # "number" \/ column.v = 9990000 \/ column.v = 99990000 THEN JsNull
    ELSE column

\* parseNDBCData(text, buoyId) on a text of so many lines with that WTMP column
parseNDBCData(text, buoyId) ==
    IF text.lines < 3 THEN [success |-> FALSE, buoyId |-> buoyId, error |-> "Insufficient data"]
    ELSE [success |-> TRUE, buoyId |-> buoyId, seaSurfaceTemp |-> getValue(text.WTMP)]

fetchBuoyData(net, buoyId) ==
    CASE net.ends \in {"ok", "body"} -> Returned(parseNDBCData(net.text, buoyId))
      [] net.ends = "status" ->
           Returned([success |-> FALSE, buoyId |-> buoyId, error |-> "NDBC returned 404"])
      [] OTHER -> Returned([success |-> FALSE, buoyId |-> buoyId, error |-> "Failed to fetch"])

\* fetchSounding on what the network gives; parseSoundingData returns the
\* failure of a page without a PRE block
fetchSounding(net) ==
    CASE net.ends = "ok" -> Returned(net.parsed)
      [] net.ends = "body" -> Returned(FetchFailed("No sounding data in response"))
      [] net.ends = "status" -> Returned(FetchFailed("Wyoming sounding returned 503"))
      [] OTHER -> Returned(FetchFailed("Failed to fetch"))

\* await Promise.all(outcomes): rejects when one of them does
AnyThrew(outcomes) == \E i \in 1..Len(outcomes) : outcomes[i].threw

FirstThrown(outcomes) ==
    outcomes[CHOOSE i \in 1..Len(outcomes) :
                 outcomes[i].threw /\ \A j \in 1..(i - 1) : ~outcomes[j].threw]

\* getAllWeatherData from the network: the three fetches under Promise.all,
\* the buoys under the Promise.all of fetchGulfSST
allWeatherData(surface, buoys, sounding) ==
    IF AnyThrew(<<surface, sounding>> \o buoys)
    THEN FirstThrown(<<surface, sounding>> \o buoys)
    ELSE Returned(getAllWeatherData(surface.value,
                                    [i \in 1..Len(buoys) |-> buoys[i].value],
                                    sounding.value))

\* ----------------------------------------- a program using the service
\* The program constructs one service and calls getWeatherVariables again and
\* again; what each fetch gives is the network's choice.
Reading(present, n) == [t |-> "object", value |-> IF present THEN JsNum(n) ELSE JsNull]

\* data.properties of the NWS answer on a humid and on a dry day, with the
\* values of the missing group null
SurfaceProperties(level, missing) ==
    LET humid == level = 1
        has(group) == missing \notin {group, "all"}
    IN  [t |-> "object",
         timestamp |-> JsStr("2025-03-21T18:00:00+00:00"),
         dewpoint |-> Reading(has("moisture"), IF humid THEN 190000 ELSE 50000),
         relativeHumidity |-> Reading(has("moisture"), IF humid THEN 750000 ELSE 400000),
         temperature |-> Reading(has("temperature"), IF humid THEN 250000 ELSE 100000),
         windSpeed |-> Reading(has("wind"), IF humid THEN 180000 ELSE 72000),
         windDirection |-> Reading(has("wind"), IF humid THEN 2250000 ELSE 3000000),
         windGust |-> Reading(has("wind"), IF humid THEN 300000 ELSE 0),
         barometricPressure |-> Reading(has("pressure"),
                                        IF humid THEN 1008000000 ELSE 1020000000)]

MissingGroups == {"moisture", "wind", "pressure", "all"}

SurfaceFetched(level, missing) ==
    [t |-> "object", success |-> TRUE, data |-> SurfaceProperties(level, missing),
     station |-> "KLIT"]

\* what fetchSurfaceObservations resolves to: the fetch failed, all values of
\* the humid or the dry day, the humid day with the values of one group null
SurfaceOutcomes ==
    {FetchFailed("NWS API returned 503"), SurfaceFetched(1, "none"), SurfaceFetched(2, "none")}
    \cup {SurfaceFetched(1, missing) : missing \in MissingGroups}

\* what fetchBuoyData resolves to for each buoy of GULF_BUOYS: every fetch
\* failed; or two readings, two fetches failed and the other water
\* temperatures null
BuoyResults(pattern) ==
    [i \in 1..Len(GULF_BUOYS) |->
        LET buoyId == GULF_BUOYS[i]
        IN  IF pattern = "failed" \/ buoyId \in {"42019", "42035"}
            THEN [success |-> FALSE, buoyId |-> buoyId, error |-> "NDBC returned 404"]
            ELSE [success |-> TRUE, buoyId |-> buoyId,
                  seaSurfaceTemp |->
                      IF buoyId = "42002" THEN JsNum(264000)
                      ELSE IF buoyId = "42040" THEN JsNum(290000)
                      ELSE JsNull]]

BuoyPatterns == {"failed", "two"}

\* the answers of the buoys the model runs getWeatherVariables with
BuoyOutcomes == {BuoyResults(pattern) : pattern \in BuoyPatterns}

\* what fetchSounding resolves to: the fetch failed, or parseSoundingData's
\* object with the values of the missing part null (the lapse rate and the
\* wind shear are null together, when fewer than two levels were parsed)
SoundingParsed(missing) ==
    [t |-> "object", success |-> TRUE, station |-> "72340",
     indices |-> IF missing = "indices"
                 THEN [t |-> "object", cape |-> JsNull, cin |-> JsNull, liftedIndex |-> JsNull]
                 ELSE [t |-> "object", cape |-> JsNum(18000000), cin |-> JsNum(-600000),
                       liftedIndex |-> JsNum(-40000)],
     lapseRate |-> IF missing = "levels"
                   THEN [t |-> "object", value |-> JsNull, error |-> JsStr("Insufficient levels")]
                   ELSE [t |-> "object", value |-> JsNum(72000), upperTemp |-> JsNum(-125000),
                         upperHeight |-> JsNum(57000000),
                         stability |-> JsStr("Conditionally Unstable")],
     windShear |-> IF missing = "levels"
                   THEN [t |-> "object", bulk0_6km |-> JsNull, bulk0_1km |-> JsNull,
                         error |-> JsStr("Insufficient levels")]
                   ELSE [t |-> "object", bulk0_6km |-> JsNum(300000), bulk0_1km |-> JsNum(120000),
                         interpretation |-> JsStr("Supercell potential")]]

SoundingOutcomes ==
    {FetchFailed("Wyoming sounding returned 503")}
    \cup {SoundingParsed(missing) : missing \in {"none", "indices", "levels"}}

\* the days the program runs on: the spring equinox and the summer solstice
ServiceDays == {80, 172}

InitService ==
    /\ thresholds = InitThresholds
    /\ weatherMeta = InitWeatherMeta
    /\ factors = <<>>
    /\ candidates = <<>>
    /\ result = NoResult
    /\ probe = NoProbe
    /\ pc = "idle"
    /\ engine = "service"
    /\ regions = Undefined
    /\ climateOffset = 0
    /\ call = NoCall
    /\ previousValues = <<>>
    /\ location = NoService
    /\ cache = NoService
    /\ pending = <<>>

GetWeatherVariables(surface, buoys, sounding, dayOfYear) ==
    /\ pc = "idle" /\ engine = "service"
    /\ LET out == getWeatherVariables(previousValues,
                                      getAllWeatherData(surface, buoys, sounding), dayOfYear)
       IN  /\ call' = [op |-> "getWeatherVariables",
                       args |-> <<surface, buoys, sounding, dayOfYear>>,
                       outcome |-> [threw |-> out.threw, value |-> out.value]]
           /\ previousValues' = out.previousValues
    /\ pc' = "done"
    /\ UNCHANGED <<thresholds, weatherMeta, factors, candidates, result, probe,
                   engine, regions, climateOffset, location, cache, pending>>

\* what the network gives the surface fetch
SurfaceNets ==
    {[ends |-> ends] : ends \in NetEnds \ {"ok"}}
    \cup {[ends |-> "ok", properties |-> SurfaceProperties(1, "none")]}

\* what the network gives each buoy fetch: nothing at all; or two readings, a
\* 404, an MM, a text of two lines, a fill value and a text without the column
BuoyNets(pattern) ==
    [i \in 1..Len(GULF_BUOYS) |->
        LET buoyId == GULF_BUOYS[i]
        IN  CASE pattern = "failed" -> [ends |-> "reject"]
              [] buoyId = "42001" -> [ends |-> "ok", text |-> [lines |-> 20, WTMP |-> JsNum(285000)]]
              [] buoyId = "42002" -> [ends |-> "ok", text |-> [lines |-> 20, WTMP |-> JsNum(264000)]]
              [] buoyId = "42019" -> [ends |-> "status"]
              [] buoyId = "42020" -> [ends |-> "ok", text |-> [lines |-> 20, WTMP |-> JsNaN]]
              [] buoyId = "42035" -> [ends |-> "body", text |-> [lines |-> 2, WTMP |-> JsUndefined]]
              [] buoyId = "42040" -> [ends |-> "ok", text |-> [lines |-> 20, WTMP |-> JsNum(9990000)]]
              [] OTHER -> [ends |-> "ok", text |-> [lines |-> 20, WTMP |-> JsUndefined]]]

NetPatterns == {"failed", "mixed"}

\* the answers of the network to the buoy fetches the model runs
\* getAllWeatherData with
BuoyNetOutcomes == {BuoyNets(pattern) : pattern \in NetPatterns}

SoundingNets ==
    {[ends |-> ends] : ends \in NetEnds \ {"ok"}}
    \cup {[ends |-> "ok", parsed |-> SoundingParsed("none")]}

\* getAllWeatherData, from its call to its return
GetAllWeatherData(surface, buoys, sounding) ==
    /\ pc = "idle" /\ engine = "service"
    /\ call' = [op |-> "getAllWeatherData", args |-> <<surface, buoys, sounding>>,
                outcome |-> allWeatherData(fetchSurfaceObservations(surface),
                                           [i \in 1..Len(buoys) |->
                                               fetchBuoyData(buoys[i], GULF_BUOYS[i])],
                                           fetchSounding(sounding))]
    /\ pc' = "done"
    /\ UNCHANGED <<thresholds, weatherMeta, factors, candidates, result, probe,
                   engine, regions, climateOffset>>
    /\ UNCHANGED serviceVars

NextService ==
    \/ \E surface \in SurfaceOutcomes, buoys \in BuoyOutcomes,
          sounding \in SoundingOutcomes, dayOfYear \in ServiceDays :
          GetWeatherVariables(surface, buoys, sounding, dayOfYear)
    \/ \E surface \in SurfaceNets, buoys \in BuoyNetOutcomes, sounding \in SoundingNets :
          GetAllWeatherData(surface, buoys, sounding)
    \/ Consume

SpecService == InitService /\ [][NextService]_vars

\* ---------------------------------------------------------------- C20
\* what the last call of getWeatherVariables was given
FetchedData == getAllWeatherData(call.args[1], call.args[2], call.args[3])

\* the observation of a surface or sounding field, undefined when its fetch
\* failed
SurfaceReading(name) ==
    IF FetchedData.surface.success THEN Get(Get(FetchedData.surface.data, name), "value")
    ELSE JsUndefined

SoundingReading(part, name) ==
    IF FetchedData.sounding.success THEN Get(Get(FetchedData.sounding, part), name)
    ELSE JsUndefined

\* the fetch failed or the field is null
Unavailable(reading) == IsNullish(reading)

NoDataModifiers ==
    {"NO DATA", "NO DATA - Cannot assess", "NO DATA - Cannot assess instability",
     "NO DATA - Cannot assess shear", "NO DATA - Cannot assess stability",
     "NO DATA - Cannot calculate E_fuel"}

\* the quantity is reported as unavailable in its value, modifier and trend
ReportedMissing(value, variable) ==
    /\ value.value = "NO DATA"
    /\ variable.dsoModifier[1] \in NoDataModifiers
    /\ variable.trend = "-"

\* C20: whatever subset of the fetches (surface, Gulf buoys, sounding) fails or
\* returns null fields, getWeatherVariables returns and does not throw, and
\* every quantity whose observation is unavailable is reported as 'NO DATA' in
\* its value and in its dsoModifier, with the dash as its trend, never as an
\* estimated or interpreted value.
C20_NoDataNeverRaises ==
    EngineDone("getWeatherVariables") =>
        /\ ~call.outcome.threw
        /\ LET v == call.outcome.value
               rh == SurfaceReading("relativeHumidity")
               pressure == SurfaceReading("barometricPressure")
               windSpd == SurfaceReading("windSpeed")
           IN  /\ Unavailable(rh)
                  => ReportedMissing(v.humidity.relativeHumidity, v.humidity)
               /\ Unavailable(SoundingReading("indices", "cape"))
                  => ReportedMissing(v.energyDispersal.cape, v.energyDispersal)
               /\ Unavailable(SoundingReading("windShear", "bulk0_6km"))
                  => /\ v.windPattern.shear0_6km.value = "NO DATA"
                     /\ v.windPattern.dsoModifier[1] \in NoDataModifiers
               /\ Unavailable(pressure) => ReportedMissing(v.angleOfAttack.pressure, v.angleOfAttack)
               /\ Unavailable(SoundingReading("lapseRate", "value"))
                  => /\ v.thermalVariance.lapseRate.value = "NO DATA"
                     /\ v.thermalVariance.dsoModifier[1] \in NoDataModifiers
                     /\ v.thermalVariance.inversionPresent = "NO DATA"
               /\ (~FetchedData.gulfSST.success \/ Unavailable(rh))
                  => ReportedMissing(v.eFuel.value, v.eFuel)
               /\ (Unavailable(pressure) \/ Unavailable(windSpd))
                  => ReportedMissing(v.gradient.value, v.gradient)

\* ------------------------------------------- DSOWeatherService (part_001)
\* this.location of the constructor without a config: latitudes and longitudes
\* in hundredths of a degree
DefaultLocation ==
    [name |-> <<"Arkansas">>, lat |-> 3475, lon |-> -9229, stationId |-> "KLIT",
     nwsOffice |-> "LZK"]

\* this.cache of the constructor, and of setLocationFromCoords when it ends
EmptyCache ==
    [surface |-> [data |-> JsNull, timestamp |-> JsNull, ttlMinutes |-> 10],
     atmospheric |-> [data |-> JsNull, timestamp |-> JsNull, ttlMinutes |-> 30],
     sst |-> [data |-> JsNull, timestamp |-> JsNull, ttlMinutes |-> 60]]

GULF_POINTS == <<"Central Gulf", "NW Gulf", "NE Gulf">>

IsValidPoint(r) == r.success /\ r.sst.t # "null"

IsNEGulf(r) == r.name = "NE Gulf"

RECURSIVE SumPoints(_, _)
SumPoints(readings, n) == IF n = 0 THEN 0 ELSE SumPoints(readings, n - 1) + readings[n].sst.v

\* fetchGulfSST of DSOWeatherService over what fetchMarineSST gave for each
\* point; the object has a pointCount and no buoyCount, which reads as undefined
DSO_fetchGulfSST(results) ==
    LET validReadings == SelectSeq(results, IsValidPoint)
        neGulf == SelectSeq(validReadings, IsNEGulf)
    IN  IF Len(validReadings) = 0
        THEN [t |-> "object", success |-> FALSE,
              error |-> JsStr("No valid SST readings from Open-Meteo Marine"),
              attemptedPoints |-> Len(GULF_POINTS)]
        ELSE [t |-> "object", success |-> TRUE,
              primarySST |-> IF Len(neGulf) > 0 THEN neGulf[1].sst ELSE validReadings[1].sst,
              averageSST |-> JsNum(RDiv(SumPoints(validReadings, Len(validReadings)),
                                        Len(validReadings))),
              pointCount |-> Len(validReadings),
              buoyCount |-> JsUndefined,
              readings |-> [i \in 1..Len(validReadings) |->
                               [name |-> validReadings[i].name, sst |-> validReadings[i].sst]]]

\* getAllWeatherData of DSOWeatherService
DSO_getAllWeatherData(surface, points, atmospheric) ==
    [surface |-> surface, gulfSST |-> DSO_fetchGulfSST(points), atmospheric |-> atmospheric]

\* x?.value?.raw of a variable of getWeatherVariables: realValue gives raw to a
\* real value only
Raw(reading) == IF "raw" \in DOMAIN reading THEN reading.raw ELSE JsUndefined

\* x || d
OrElse(x, d) == IF IsTruthy(x) THEN x ELSE d

\* the branches of the risk assessment on the power index P and the CAPE
SimpleRisk(P, cape) ==
    IF Greater(P, 4000) /\ Greater(cape, 15000000)
    THEN [riskLevel |-> "HIGH", confidence |-> "High - Strong indicators align"]
    ELSE IF Greater(P, 2500) /\ Greater(cape, 5000000)
    THEN [riskLevel |-> "MODERATE", confidence |-> "Moderate - Some indicators present"]
    ELSE IF Greater(P, 1500) \/ Greater(cape, 2500000)
    THEN [riskLevel |-> "LOW", confidence |-> "Moderate - Weak signals"]
    ELSE [riskLevel |-> "MINIMAL", confidence |-> "High - Conditions unfavorable"]

\* the object getSimplePrediction returns, from its seven constants
SimplePrediction(variables, place, eFuel, gradient, catalyst, solar, cape, temp, wind) ==
    LET P == Arith(Times, Arith(Times, eFuel, MathAbs(catalyst)), solar)
        risk == SimpleRisk(P, cape)
    IN  [riskLevel |-> risk.riskLevel,
         confidence |-> risk.confidence,
         dsoIndex |-> P,
         cape |-> cape,
         temp |-> temp,
         wind |-> wind,
         location |-> place.name,
         dataQuality |-> [surface |-> variables.metadata.dataSources.surface,
                          gulfSST |-> variables.metadata.dataSources.gulfBuoys,
                          atmospheric |-> variables.metadata.dataSources.atmospheric]]

\* getSimplePrediction on what getWeatherVariables came back with: its
\* exception is not caught
getSimplePrediction(place, outcome) ==
    IF outcome.threw THEN outcome
    ELSE Returned(SimplePrediction(outcome.value, place,
                                   OrElse(Raw(outcome.value.eFuel.value), JsNum(0)),
                                   OrElse(Raw(outcome.value.gradient.value), JsNum(0)),
                                   OrElse(Raw(outcome.value.catalyst.value), JsNum(0)),
                                   OrElse(Raw(outcome.value.solarAngle.value), JsNum(0)),
                                   OrElse(Raw(outcome.value.energyDispersal.cape), JsNum(0)),
                                   OrElse(Raw(outcome.value.thermalVariance.surfaceTemp), JsNull),
                                   OrElse(Raw(outcome.value.windPattern.speed), JsNull)))


\* ------------------------------ a program using one DSOWeatherService
\* What the NWS knows of the coordinates a caller passes: the properties of
\* the points answer and the first station of the stations answer.
Places ==
    {[lat |-> 3278, lon |-> -9680, city |-> "Dallas", state |-> "TX", gridId |-> "FWD",
      gridX |-> 89, gridY |-> 104, station |-> "KDAL"],
     [lat |-> 4188, lon |-> -8763, city |-> "Chicago", state |-> "IL", gridId |-> "LOT",
      gridX |-> 76, gridY |-> 73, station |-> "KMDW"]}

PlaceAt(lat, lon) == CHOOSE place \in Places : place.lat = lat /\ place.lon = lon

\* obj.k = fields[k] for every key of fields
Assign(obj, fields) ==
    [k \in DOMAIN obj \cup DOMAIN fields |-> IF k \in DOMAIN fields THEN fields[k] ELSE obj[k]]

\* `${lat.toFixed(2)}°N, ${Math.abs(lon).toFixed(2)}°W`
CoordsName(lat, lon) == <<"coords", lat, Abs(lon)>>

\* the assignments of setLocationFromCoords on an ok points answer; with
\* stations FALSE the answer has no observationStations
PointsAssigned(place, stations) ==
    [name |-> <<place.city, place.state>>,
     nwsOffice |-> place.gridId,
     gridX |-> place.gridX,
     gridY |-> place.gridY,
     forecastUrl |-> <<"forecast", place.gridId, place.gridX, place.gridY>>,
     stationsUrl |-> IF stations THEN <<"stations", place.gridId, place.gridX, place.gridY>>
                     ELSE <<>>]

\* how an awaited fetch ends: the answer is ok, ok without the part asked for
\* (no observationStations, no features), not ok, or the fetch or its json()
\* rejects
FetchEnds == {"ok", "empty", "notOk", "reject"}

MaxCalls == 2

\* the calls of pending that have not completed
InFlight == {i \in 1..Len(pending) : pending[i].at # "done"}

\* the program awaits each call (dso) or lets calls overlap (locator)
MayStart ==
    /\ engine \in {"dso", "locator"}
    /\ Len(pending) < (IF engine = "dso" THEN 1 ELSE MaxCalls + 1)
    /\ engine = "dso" => (pc = "idle" /\ InFlight = {})

serviceObjectUnchanged ==
    UNCHANGED <<thresholds, weatherMeta, factors, candidates, result, probe,
                engine, regions, climateOffset>>

\* setLocationFromCoords(lat, lon) up to its first await: the coordinates are
\* assigned and the points fetch is started
SetLocationFromCoords(lat, lon) ==
    /\ MayStart
    /\ Cardinality({i \in 1..Len(pending) : pending[i].op = "setLocationFromCoords"}) < MaxCalls
    /\ location' = Assign(location, [lat |-> lat, lon |-> lon])
    /\ pending' = Append(pending, [op |-> "setLocationFromCoords", lat |-> lat, lon |-> lon,
                                   at |-> "points", ended |-> "not yet"])
    /\ UNCHANGED <<pc, call, previousValues, cache>>
    /\ serviceObjectUnchanged

\* call i of pending has completed; ended keeps how its last fetch did
Completed(i, ends) == [pending EXCEPT ![i].at = "done", ![i].ended = ends]

\* the points answer of call i has come: its assignments, then the stations
\* fetch or the end of the call, which replaces the cache
PointsAnswer(i, ends) ==
    /\ engine \in {"dso", "locator"}
    /\ i \in InFlight /\ pending[i].at = "points"
    /\ LET place == PlaceAt(pending[i].lat, pending[i].lon)
       IN  CASE ends = "ok" ->
                  /\ location' = Assign(location, PointsAssigned(place, TRUE))
                  /\ pending' = [pending EXCEPT ![i].at = "stations"]
                  /\ UNCHANGED cache
             [] ends = "empty" ->
                  /\ location' = Assign(location, PointsAssigned(place, FALSE))
                  /\ pending' = Completed(i, ends)
                  /\ cache' = EmptyCache
             [] ends = "notOk" ->
                  /\ pending' = Completed(i, ends)
                  /\ cache' = EmptyCache
                  /\ UNCHANGED location
             [] OTHER ->
                  /\ location' = Assign(location,
                                        [name |-> CoordsName(pending[i].lat, pending[i].lon)])
                  /\ pending' = Completed(i, ends)
                  /\ cache' = EmptyCache
    /\ UNCHANGED <<pc, call, previousValues>>
    /\ serviceObjectUnchanged

\* the stations answer of call i has come: the station of its first feature,
\* then the end of the call
StationsAnswer(i, ends) ==
    /\ engine \in {"dso", "locator"}
    /\ i \in InFlight /\ pending[i].at = "stations"
    /\ LET place == PlaceAt(pending[i].lat, pending[i].lon)
       IN  location' =
               CASE ends = "ok" -> Assign(location, [stationId |-> place.station])
                 [] ends = "reject" ->
                      Assign(location, [name |-> CoordsName(pending[i].lat, pending[i].lon)])
                 [] OTHER -> location
    /\ pending' = Completed(i, ends)
    /\ cache' = EmptyCache
    /\ UNCHANGED <<pc, call, previousValues>>
    /\ serviceObjectUnchanged


\* fetchSurfaceObservations up to its await: the URL names this.location.stationId
FetchSurfaceObservations ==
    /\ engine = "locator" /\ MayStart
    /\ \A i \in 1..Len(pending) : pending[i].op # "fetchSurfaceObservations"
    /\ pending' = Append(pending, [op |-> "fetchSurfaceObservations",
                                   queried |-> location.stationId, at |-> "observation"])
    /\ UNCHANGED <<pc, call, previousValues, location, cache>>
    /\ serviceObjectUnchanged

\* what fetchSurfaceObservations resolves to once the answer of the station
\* it queried has come
SurfaceAnswered(ends, queried, place) ==
    IF ends = "ok"
    THEN [t |-> "object", success |-> TRUE, data |-> SurfaceProperties(1, "none"),
          station |-> place.stationId, queried |-> queried]
    ELSE FetchFailed("NWS API returned 503")

ObservationAnswer(i, ends) ==
    /\ engine = "locator"
    /\ i \in InFlight /\ pending[i].at = "observation"
    /\ call' = [op |-> "fetchSurfaceObservations", args |-> <<>>,
                outcome |-> Returned(SurfaceAnswered(ends, pending[i].queried, location))]
    /\ pending' = [pending EXCEPT ![i].at = "done"]
    /\ UNCHANGED <<pc, previousValues, location, cache>>
    /\ serviceObjectUnchanged

\* what fetchMarineSST resolves to for each point of GULF_POINTS: every fetch
\* failed; or a reading for Central Gulf and NE Gulf and a null one for NW Gulf
MarineResults(pattern) ==
    [i \in 1..Len(GULF_POINTS) |->
        LET name == GULF_POINTS[i]
        IN  IF pattern = "failed"
            THEN [success |-> FALSE, name |-> name, error |-> "Open-Meteo Marine returned 503"]
            ELSE [success |-> TRUE, name |-> name,
                  sst |-> IF name = "Central Gulf" THEN JsNum(264000)
                          ELSE IF name = "NE Gulf" THEN JsNum(290000)
                          ELSE JsNull]]

\* the answers of the points the model runs getWeatherVariables with
MarineOutcomes == {MarineResults(pattern) : pattern \in BuoyPatterns}

\* what parseOpenMeteoData returns: the indices of the hour, the lapse rate of
\* calculateLapseRateFromLevels and the wind shear of
\* calculateWindShearFromLevels, whose object has a value and no bulk0_6km;
\* with the indices missing the hourly arrays hold null
AtmosphericParsed(missing) ==
    [t |-> "object", success |-> TRUE,
     indices |-> IF missing = "indices"
                 THEN [t |-> "object", cape |-> JsNull, cin |-> JsNull, liftedIndex |-> JsNull]
                 ELSE [t |-> "object", cape |-> JsNum(18000000), cin |-> JsNum(-600000),
                       liftedIndex |-> JsNum(-40000)],
     lapseRate |-> [t |-> "object", value |-> JsNum(72000), upperTemp |-> JsNum(237000),
                    upperHeight |-> JsNum(1800000),
                    stability |-> JsStr("Conditionally Unstable")],
     windShear |-> [t |-> "object", value |-> JsNum(220000),
                    interpretation |-> JsStr("Moderate low-level shear")]]

AtmosphericOutcomes ==
    {FetchFailed("Open-Meteo returned 503"), AtmosphericParsed("none"),
     AtmosphericParsed("indices")}

DSOSurfaceOutcomes ==
    {FetchFailed("NWS API returned 503"), SurfaceFetched(1, "none"), SurfaceFetched(2, "none")}

DSODay == 80

\* a call of the awaiting program has come back with out, whose previousValues
\* are those its calls of calcTrend left
ServiceReturns(op, args, outcome, out) ==
    /\ call' = [op |-> op, args |-> args, outcome |-> [threw |-> outcome.threw,
                                                        value |-> outcome.value]]
    /\ previousValues' = out.previousValues
    /\ pc' = "done"
    /\ UNCHANGED <<location, cache, pending>>
    /\ serviceObjectUnchanged

\* getWeatherVariables of DSOWeatherService, from its call to its return
DSO_GetWeatherVariables(surface, points, atmospheric) ==
    /\ engine = "dso" /\ pc = "idle" /\ InFlight = {}
    /\ ServiceReturns("getWeatherVariables", <<surface, points, atmospheric>>,
                      DSO_getWeatherVariables(location, previousValues,
                          DSO_getAllWeatherData(surface, points, atmospheric), DSODay),
                      DSO_getWeatherVariables(location, previousValues,
                          DSO_getAllWeatherData(surface, points, atmospheric), DSODay))

\* getSimplePrediction with the out of the getWeatherVariables it awaits
SimplePredictionReturns(args, out) ==
    ServiceReturns("getSimplePrediction", args, getSimplePrediction(location, out), out)

GetSimplePrediction(surface, points, atmospheric) ==
    /\ engine = "dso" /\ pc = "idle" /\ InFlight = {}
    /\ SimplePredictionReturns(<<surface, points, atmospheric>>,
                               DSO_getWeatherVariables(location, previousValues,
                                   DSO_getAllWeatherData(surface, points, atmospheric), DSODay))

InitDSO ==
    /\ thresholds = InitThresholds
    /\ weatherMeta = InitWeatherMeta
    /\ factors = <<>>
    /\ candidates = <<>>
    /\ result = NoResult
    /\ probe = NoProbe
    /\ pc = "idle"
    /\ engine = "dso"
    /\ regions = Undefined
    /\ climateOffset = 0
    /\ call = NoCall
    /\ previousValues = <<>>
    /\ location = DefaultLocation
    /\ cache = EmptyCache
    /\ pending = <<>>

NextDSO ==
    \/ \E place \in Places : SetLocationFromCoords(place.lat, place.lon)
    \/ \E i \in 1..MaxCalls + 1, ends \in FetchEnds : PointsAnswer(i, ends)
    \/ \E i \in 1..MaxCalls + 1, ends \in FetchEnds : StationsAnswer(i, ends)
    \/ \E surface \in DSOSurfaceOutcomes, points \in MarineOutcomes,
          atmospheric \in AtmosphericOutcomes :
          DSO_GetWeatherVariables(surface, points, atmospheric)
    \/ \E surface \in DSOSurfaceOutcomes, points \in MarineOutcomes,
          atmospheric \in AtmosphericOutcomes :
          GetSimplePrediction(surface, points, atmospheric)
    \/ Consume

SpecDSO == InitDSO /\ [][NextDSO]_vars

\* the program that lets its calls overlap
InitLocator ==
    /\ thresholds = InitThresholds
    /\ weatherMeta = InitWeatherMeta
    /\ factors = <<>>
    /\ candidates = <<>>
    /\ result = NoResult
    /\ probe = NoProbe
    /\ pc = "idle"
    /\ engine = "locator"
    /\ regions = Undefined
    /\ climateOffset = 0
    /\ call = NoCall
    /\ previousValues = <<>>
    /\ location = DefaultLocation
    /\ cache = EmptyCache
    /\ pending = <<>>

NextLocator ==
    \/ \E place \in Places : SetLocationFromCoords(place.lat, place.lon)
    \/ \E i \in 1..MaxCalls + 1, ends \in FetchEnds : PointsAnswer(i, ends)
    \/ \E i \in 1..MaxCalls + 1, ends \in FetchEnds : StationsAnswer(i, ends)
    \/ FetchSurfaceObservations
    \/ \E i \in 1..MaxCalls + 1, ends \in {"ok", "notOk"} : ObservationAnswer(i, ends)

SpecLocator == InitLocator /\ [][NextLocator]_vars


\* ---------------------------------------------------------------- C21
\* the variables the getWeatherVariables inside the last call computed (the
\* values and their isReal flags do not depend on the trend history)
VariablesOfCall ==
    DSO_getWeatherVariables(location, <<>>,
        DSO_getAllWeatherData(call.args[1], call.args[2], call.args[3]), DSODay).value

RiskLevels == {"HIGH", "MODERATE", "LOW", "MINIMAL"}

\* C21 (as claimed): when getSimplePrediction returns and E_fuel, gradient or
\* CAPE is NO DATA in the variables it read, its result carries none of the
\* four risk levels and no number for the DSO index or the CAPE: nothing
\* computed from a substituted 0.
C21_NoSubstitutedDefault ==
    (EngineDone("getSimplePrediction") /\ ~call.outcome.threw)
    => LET v == VariablesOfCall
           r == call.outcome.value
       IN  (~v.eFuel.value.isReal \/ ~v.gradient.value.isReal
            \/ ~v.energyDispersal.cape.isReal)
           => /\ r.riskLevel \notin RiskLevels
              /\ r.dsoIndex.t # "number"
              /\ r.cape.t # "number"


\* ---------------------------------------------------------------- C22
\* a fetch result: a success flag, and an error message with success false
IsFetchResult(r) == r.success \in BOOLEAN /\ (~r.success => "error" \in DOMAIN r)

\* C22 (as claimed): getAllWeatherData resolves, with one result per source
\* that has success false and an error exactly when its fetch did not end ok,
\* and each result is what its own fetch gives whatever the other fetches do;
\* and every getWeatherVariables reports in metadata.dataSources the success
\* flag of each source.
C22_FailuresStayApart ==
    /\ EngineDone("getAllWeatherData")
       => /\ ~call.outcome.threw
          /\ LET data == call.outcome.value
                 allOk == allWeatherData(fetchSurfaceObservations(call.args[1]),
                                         [i \in 1..Len(GULF_BUOYS) |->
                                             fetchBuoyData(BuoyNets("mixed")[i], GULF_BUOYS[i])],
                                         fetchSounding([ends |-> "ok",
                                                        parsed |-> SoundingParsed("none")])).value
             IN  /\ IsFetchResult(data.surface) /\ IsFetchResult(data.gulfSST)
                 /\ IsFetchResult(data.sounding)
                 /\ data.surface.success <=> call.args[1].ends = "ok"
                 /\ data.sounding.success <=> call.args[3].ends = "ok"
                 /\ data.surface = allOk.surface
    /\ EngineDone("getWeatherVariables")
       => /\ ~call.outcome.threw
          /\ call.outcome.value.metadata.dataSources
               = [surface |-> call.args[1].success,
                  gulfBuoys |-> fetchGulfSST(call.args[2]).success,
                  sounding |-> call.args[3].success]


\* ---------------------------------------------------------------- C23
\* the buoys (or points) of results that gave a sea-surface temperature
ValidBuoys(results, field) ==
    {i \in 1..Len(results) : results[i].success /\ results[i][field].t # "null"}

RECURSIVE SumOver(_, _, _)
SumOver(S, results, field) ==
    IF S = {} THEN 0
    ELSE LET i == CHOOSE j \in S : TRUE
         IN  results[i][field].v + SumOver(S \ {i}, results, field)

\* what the claim says of a Gulf result over the per-buoy results: success,
\* count and mean over the valid set, the primary from the priority ones
GulfOfTheSet(gulf, buoyCount, results, field, priority) ==
    LET valid == ValidBuoys(results, field)
    IN  /\ gulf.success = (valid # {})
        /\ gulf.success =>
              /\ buoyCount = Cardinality(valid)
              /\ gulf.averageSST = JsNum(RDiv(SumOver(valid, results, field),
                                              Cardinality(valid)))
              /\ (valid \cap priority # {}) =>
                    gulf.primarySST \in {results[i][field] : i \in valid \cap priority}

PriorityBuoys == {i \in 1..Len(GULF_BUOYS) : GULF_BUOYS[i] \in {"42040", "42067", "42001"}}

NEGulfPoint == {i \in 1..Len(GULF_POINTS) : GULF_POINTS[i] = "NE Gulf"}

\* C23 (as claimed): the Gulf result of either service is a function of the
\* set of per-buoy outcomes: success exactly when a buoy gave a non-null
\* temperature, buoyCount the number of such buoys, averageSST their mean and
\* primarySST the reading of a priority buoy when one of them is valid.
C23_GulfOfTheOutcomes ==
    /\ (engine = "service" /\ EngineDone("getAllWeatherData"))
       => GulfOfTheSet(call.outcome.value.gulfSST, call.outcome.value.gulfSST.buoyCount,
                       [i \in 1..Len(GULF_BUOYS) |->
                           fetchBuoyData(call.args[2][i], GULF_BUOYS[i]).value],
                       "seaSurfaceTemp", PriorityBuoys)
    /\ (engine = "dso" /\ EngineDone("getWeatherVariables"))
       => LET gulf == DSO_fetchGulfSST(call.args[2])
          IN  GulfOfTheSet(gulf, IF gulf.buoyCount = JsUndefined THEN NaN ELSE gulf.buoyCount,
                           call.args[2], "sst", NEGulfPoint)

\* the same of NOAAWeatherService alone
C23_BuoysOfTheSet ==
    (engine = "service" /\ EngineDone("getAllWeatherData"))
    => GulfOfTheSet(call.outcome.value.gulfSST, call.outcome.value.gulfSST.buoyCount,
                    [i \in 1..Len(GULF_BUOYS) |->
                        fetchBuoyData(call.args[2][i], GULF_BUOYS[i]).value],
                    "seaSurfaceTemp", PriorityBuoys)

\* the same of DSOWeatherService but for the count, which it names pointCount
C23_PointsOfTheSet ==
    (engine = "dso" /\ EngineDone("getWeatherVariables"))
    => LET gulf == DSO_fetchGulfSST(call.args[2])
       IN  GulfOfTheSet(gulf, gulf.pointCount, call.args[2], "sst", NEGulfPoint)


\* ---------------------------------------------------------------- C24
\* the types whose test passes for the four factors
MatchedTypes(fuel, gradient, catalyst, solarAngle) ==
    LET rules == StormRules(fuel, gradient, catalyst, solarAngle)
    IN  {rules[i].type : i \in {j \in 1..Len(rules) : rules[j].when}}

Descending(all) ==
    \A i \in 1..Len(all), j \in 1..Len(all) : i < j => all[i].probability >= all[j].probability

Stable == [type |-> "STABLE", probability |-> 0, severity |-> "none"]

\* primary followed by the rest is the matched types, each once, by falling
\* probability; with none matched primary is STABLE
RankedMatches(primary, rest, matched) ==
    IF matched = {} THEN primary = Stable /\ rest = <<>>
    ELSE LET all == <<primary>> \o rest
         IN  /\ Descending(all)
             /\ Len(all) = Cardinality(matched)
             /\ {all[i].type : i \in 1..Len(all)} = matched

\* the four factors infer computes for its arguments
FactorsOfInfer(args) ==
    LET lat == Num(GetProp(REGIONAL_FUEL, args[1]), "lat")
    IN  <<getEFuel(args[1], args[3]), Lookup_getGradient(args[1], args[3]),
          Lookup_getCatalyst(args[2]), Lookup_getSolarAngle(lat, args[2])>>

InferFound == EngineDone("infer") /\ "prediction" \in DOMAIN call.outcome.value

\* C24: classifyStorm of the lookup engine returns the matched types by falling
\* probability: primary the highest, secondary the next or null, STABLE with
\* probability 0 when none matched; infer reports that primary as prediction
\* and the other matches, in order, as alternatives.
C24_SortedByProbability ==
    /\ EngineDone("classifyStorm")
       => LET r == call.outcome.value
          IN  /\ RankedMatches(r.primary, SubSeq(r.all, 2, Len(r.all)),
                               MatchedTypes(call.args[1], call.args[2], call.args[3],
                                            call.args[4]))
              /\ r.secondary = (IF Len(r.all) >= 2 THEN <<r.all[2]>> ELSE <<>>)
              /\ (r.all # <<>>) => r.primary = r.all[1]
    /\ InferFound
       => LET r == call.outcome.value
              f == FactorsOfInfer(call.args)
          IN  RankedMatches(r.prediction, r.alternatives,
                            MatchedTypes(f[1], f[2], f[3], f[4]))

\* the sort has moved a type pushed later in front of one pushed earlier
SortActed(all) ==
    \E i \in 1..Len(all), j \in 1..Len(all) :
        /\ i < j
        /\ all[i].probability > all[j].probability
        /\ \E a \in 1..7, b \in 1..7 :
              /\ a > b
              /\ StormRules(0, 0, 0, 0)[a].type = all[i].type
              /\ StormRules(0, 0, 0, 0)[b].type = all[j].type

C24_WitnessStorm == EngineDone("classifyStorm") /\ SortActed(call.outcome.value.all)

C24_WitnessInfer ==
    /\ InferFound
    /\ SortActed(<<call.outcome.value.prediction>> \o call.outcome.value.alternatives)

C24_WitnessStable == InferFound /\ call.outcome.value.prediction = Stable


\* ---------------------------------------------------------------- C25
\* the variable of getWeatherVariables that reports the arrow of each key
TrendOf ==
    [humidity_rh |-> "humidity", cape |-> "energyDispersal", wind |-> "windPattern",
     temp |-> "thermalVariance", efuel |-> "eFuel", gradient |-> "gradient",
     catalyst |-> "catalyst", solar |-> "solarAngle"]

\* one call of calcTrend for key that reported trend and took previousValues
\* from prev to next: "-" changes nothing; any other arrow stores a value that
\* is neither null nor undefined; the first one is "->"; "up" and "down" stand
\* for a difference of at least 0.01 from the stored value
TrendStep(prev, next, key, trend) ==
    /\ trend = "-" =>
          /\ (key \in DOMAIN next) = (key \in DOMAIN prev)
          /\ key \in DOMAIN prev => next[key] = prev[key]
    /\ trend # "-" => key \in DOMAIN next /\ ~IsNullish(next[key])
    /\ (trend # "-" /\ key \notin DOMAIN prev) => trend = "->"
    /\ trend \in {"up", "down"} =>
          /\ key \in DOMAIN prev
          /\ prev[key].t = "number" /\ next[key].t = "number"
          /\ IF trend = "up" THEN next[key].v - prev[key].v >= 100
             ELSE prev[key].v - next[key].v >= 100

GetWeatherVariablesReturned ==
    pc' = "done" /\ call'.op = "getWeatherVariables" /\ ~call'.outcome.threw

\* C25 (as claimed): over each getWeatherVariables that returns, every one of
\* its calcTrend calls keeps the trend cache as claimed: a null or undefined
\* value reports "-" and changes nothing, any other value is stored under its
\* own key, the first real value reports "->", and an up or down arrow is
\* reported only for a value at least 0.01 away from the stored one.
C25_TrendCache ==
    [][GetWeatherVariablesReturned
       => \A key \in DOMAIN TrendOf :
             TrendStep(previousValues, previousValues', key,
                       call'.outcome.value[TrendOf[key]].trend)]_vars

\* the same where neither the stored nor the passed value is NaN
C25_TrendCacheOfNumbers ==
    [][GetWeatherVariablesReturned
       => \A key \in DOMAIN TrendOf :
             \/ key \in DOMAIN previousValues /\ isNaN(previousValues[key])
             \/ key \in DOMAIN previousValues' /\ isNaN(previousValues'[key])
             \/ TrendStep(previousValues, previousValues', key,
                          call'.outcome.value[TrendOf[key]].trend)]_vars


\* ---------------------------------------------------------------- C26
\* the regime adjustment has replaced the primary
Overridden == candidates # <<>> /\ result.primary # candidates[1].type

\* C26 (as claimed): in every result of classify the secondary type is null or
\* differs from the primary type, also when the COLD/COOL adjustment has
\* replaced the primary.
C26_SecondaryIsAnother ==
    Done => (result.secondary = NULL \/ result.secondary # result.primary)

\* the same of the calls whose primary the adjustment left alone
C26_SecondaryIsAnotherUnlessOverridden ==
    (Done /\ ~Overridden) => (result.secondary = NULL \/ result.secondary # result.primary)


\* ---------------------------------------------------------------- C27
\* the score calculateScore gave the type reported as primary
PrimaryScore ==
    candidates[CHOOSE i \in 1..Len(candidates) : candidates[i].type = result.primary].score

\* C27 (as claimed): when a candidate passes, the confidence of the result is
\* the score of the type reported as primary, capped at 1, and the severity is
\* the rank of that type; also when the regime adjustment changed the primary
\* and when the score of the primary is 0.
C27_ConfidenceOfPrimary ==
    (Done /\ candidates # <<>>)
    => /\ result.confidence = Min(MICRO, PrimaryScore)
       /\ result.severity = Severity(result.primary)

\* the severity alone
C27_SeverityOfPrimary ==
    (Done /\ candidates # <<>>) => result.severity = Severity(result.primary)

\* the confidence where the primary is the first candidate and its score is a
\* number other than 0
C27_ConfidenceOfFirst ==
    (Done /\ candidates # <<>> /\ ~Overridden /\ Truthy(PrimaryScore))
    => result.confidence = Min(MICRO, PrimaryScore)

\* the confidence of a first candidate of score 0 or NaN
C27_HalfForNoScore ==
    (Done /\ candidates # <<>> /\ ~Truthy(candidates[1].score))
    => result.confidence = 500000


\* ---------------------------------------------------------------- C28
SetLocationCalls == {i \in 1..Len(pending) : pending[i].op = "setLocationFromCoords"}

\* two setLocationFromCoords calls were in flight together and both have
\* completed with both of their NWS lookups answered
BothLookedUp ==
    /\ Cardinality(SetLocationCalls) = 2
    /\ \A i \in SetLocationCalls : pending[i].at = "done" /\ pending[i].ended = "ok"

\* the place of the call that was started last
LastPlace ==
    LET last == CHOOSE i \in SetLocationCalls : \A j \in SetLocationCalls : j <= i
    IN  PlaceAt(pending[last].lat, pending[last].lon)

LocationOf(place) ==
    /\ location.lat = place.lat /\ location.lon = place.lon
    /\ location.stationId = place.station
    /\ location.nwsOffice = place.gridId
    /\ location.name = <<place.city, place.state>>

\* fetchSurfaceObservations is called in this step
QueryStarts ==
    /\ Len(pending') = Len(pending) + 1
    /\ pending'[Len(pending')].op = "fetchSurfaceObservations"

\* C28 (as claimed): once two overlapping setLocationFromCoords calls have both
\* completed with successful lookups, the coordinates, station, office and
\* name of the stored location are those of the call started last, whatever
\* order the answers came in, and a fetchSurfaceObservations called from then
\* on queries the station of the stored coordinates.
C28_LocationOfOneCall ==
    [][/\ BothLookedUp' => LocationOf(LastPlace)'
       /\ (BothLookedUp /\ QueryStarts)
          => pending'[Len(pending')].queried = PlaceAt(location.lat, location.lon).station]_vars

\* the coordinates alone are those of the call started last
C28_CoordinatesOfLast ==
    BothLookedUp => (location.lat = LastPlace.lat /\ location.lon = LastPlace.lon)

\* the same of calls that the program awaits one by one
C28_LocationOfAwaitedCall ==
    (engine = "dso" /\ SetLocationCalls # {}
        /\ \A i \in SetLocationCalls : pending[i].at = "done" /\ pending[i].ended = "ok")
    => LocationOf(LastPlace)


\* ---------------------------------------------------------------- C29
\* a setLocationFromCoords call completes in this step
LocationSet ==
    \E i \in 1..Len(pending) :
        /\ pending[i].op = "setLocationFromCoords"
        /\ pending[i].at # "done" /\ pending'[i].at = "done"

\* C29 (as claimed): when setLocationFromCoords completes, with or without a
\* successful lookup, the three cache entries are empty and the trend history
\* is empty, so that the next getWeatherVariables computes no arrow against a
\* value observed at the previous location.
C29_LocationChangeResets ==
    [][LocationSet => (cache' = EmptyCache /\ previousValues' = <<>>)]_vars

\* the cache alone
C29_CacheReset == [][LocationSet => cache' = EmptyCache]_vars

\* the trend history is exactly what it was before the call completed
C29_HistoryKept == [][LocationSet => previousValues' = previousValues]_vars


\* on the one day of the program the solar angle of a location does not
\* change, so an up or down arrow of it is computed against the value of
\* another location (as claimed: there is none)
C29_NoArrowAcrossLocations ==
    (EngineDone("getWeatherVariables") /\ ~call.outcome.threw)
    => call.outcome.value.solarAngle.trend = "->"

====
